---- MODULE Spec2Model ----
(***************************************************************************)
(* Model of the offline-first Todo PWA.                                    *)
(*                                                                         *)
(*   - LocalRepository  : src/lib/db/repo.ts and src/lib/db/dexie.ts       *)
(*   - service worker   : src/public/sw.js (dispatcher and lifecycle)      *)
(*   - UpdateCoordinator: src/unnamed/part_003 (PWAManager)                *)
(*   - views            : src/unnamed/part_006 (useTodos) on the pages of  *)
(*                        src/app, which call the repository               *)
(*                                                                         *)
(* The repository, the worker and the manager share no state.  Each has    *)
(* its own specifications (SpecRepo, SpecCrud, SpecList; SpecSW; SpecPWA)  *)
(* that leave the other parts alone; SpecView and SpecViewLive are the     *)
(* pages working on the repository; Spec interleaves all of them.          *)
(***************************************************************************)
EXTENDS Integers, Sequences, FiniteSets, TLC

(***************************************************************************)
(* Bounds of the model.                                                    *)
(***************************************************************************)
\* the clock (new Date()) takes the values 0..MaxTime
MaxTime == 2
\* bulkComplete / bulkDelete are called with at most MaxBulk ids
MaxBulk == 2
\* importTodos is called with at most MaxImport records
MaxImport == 2
\* the service worker intercepts at most MaxRequests requests
MaxRequests == 2
\* at most MaxInflight intercepted requests (with their background fetches)
\* are in progress at once
MaxInflight == 2
\* PWAManager.listeners holds at most MaxListeners entries
MaxListeners == 2
\* the views make at most MaxCalls calls of the repository
MaxCalls == 3
\* a page has at most MaxLoads loadTodos calls in progress
MaxLoads == 2
\* the pages call at most MaxActs mutation callbacks of their hooks
MaxActs == 2

(***************************************************************************)
(* State                                                                   *)
(***************************************************************************)
\* LocalRepository
VARIABLES
    store,   \* the todos table: a function from the ids present to records
    now,     \* the clock read by new Date()
    call,    \* the bulk or import call whose transaction is in progress
    ops,     \* per view (tab): its updateTodo / toggleTodo call in progress
    last,    \* the outcome of the call that completed in the last step
    streak,  \* the toggleTodo calls completed one right after the other
    calls    \* the number of repository calls made so far

varsRepo == <<store, now, call, ops, last, streak, calls>>

\* service worker
VARIABLES
    swState,          \* lifecycle state of this generation of the worker
    olderActive,      \* an older generation is the active worker
    skipWaitingFlag,  \* self.skipWaiting() has been called
    claimed,          \* self.clients.claim() has been called
    precache,         \* outcome of cache.addAll in the install handler
    caches,           \* CacheStorage: region name -> (request url -> response)
    oldCaches,        \* the names the activate handler set out to delete
    pendingDel,       \* caches.delete(name) calls of activate not yet settled
    delFailed,        \* a caches.delete(name) call of activate has rejected
    reqs,             \* intercepted requests in progress: id -> record
    nextReq,          \* id of the next intercepted request
    done,             \* the request that was completed in the last step
    lastOk            \* url -> id of the last request for it whose fetch
                      \* was answered 2xx (0: none yet)

varsSW == <<swState, olderActive, skipWaitingFlag, claimed, precache, caches,
            oldCaches, pendingDel, delFailed, reqs, nextReq, done, lastOk>>

\* PWAManager
VARIABLES
    state,               \* PWAManager.state
    listeners,           \* PWAManager.listeners, in subscription order
    installPromptEvent,  \* a beforeinstallprompt event is held
    registration,        \* the service worker registration is held
    waiting,             \* registration.waiting is a worker
    initPc,              \* where PWAManager.init() stands
    notified,            \* the notifyListeners call made in the last step
    applied              \* how the updateServiceWorker call made in the last
                         \* step ended ("none": the step was no such call)

varsPWA == <<state, listeners, installPromptEvent, registration, waiting, initPc,
             notified, applied>>

\* useTodos, one instance per page
VARIABLES
    hook,    \* per page: the state of its useTodos instance
    loads,   \* per page: where its loadTodos calls in progress stand
    behind,  \* per page: another page has written the table since the last
             \* loadTodos call of the page began
    acted,   \* the last mutation callback whose repository call resolved,
             \* and whether its page has read the table since
    pair     \* two toggleTodo calls on one todo that overlap, and how many
             \* of them have completed

varsView == <<hook, loads, behind, acted, pair>>

vars == <<varsRepo, varsSW, varsPWA, varsView>>

\* a step of one part leaves the other parts alone
RepoOnly == UNCHANGED <<varsSW, varsPWA, varsView>>

WorkerOnly == UNCHANGED <<varsRepo, varsPWA, varsView>>

ManagerOnly == UNCHANGED <<varsRepo, varsSW, varsView>>

\* a step of a page is a step of its hook and of the repository
ViewOnly == UNCHANGED <<varsSW, varsPWA>>

(***************************************************************************)
(* Strings whose content matters (titles) are sequences of characters.     *)
(***************************************************************************)
RECURSIVE TrimStart(_)
TrimStart(s) ==
    IF s # <<>> /\ Head(s) = " " THEN TrimStart(Tail(s)) ELSE s

RECURSIVE TrimEnd(_)
TrimEnd(s) ==
    IF s # <<>> /\ s[Len(s)] = " " THEN TrimEnd(SubSeq(s, 1, Len(s) - 1)) ELSE s

\* String.prototype.trim
Trim(s) == TrimEnd(TrimStart(s))

(***************************************************************************)
(* LocalRepository                                                         *)
(***************************************************************************)

\* primary keys that crypto.randomUUID() or an import file may carry
Ids == {"a", "b"}

\* the views (tabs) of the application that share the database
Views == {"v1"}

\* the pages with a useTodos instance: InboxPage (src/app/page.tsx) and
\* TodayPage (src/app/today/page.tsx), each open in a tab
Pages == {"inbox", "today"}

\* titles typed by the user
TitleInputs == {<<>>, <<" ">>, <<"x">>, <<" ", "x", " ">>}

EmptyStore == [i \in {} |-> 0]

\* a Todo, types.ts: notes and dueDate are optional, and a record without
\* them is a todo on which they are undefined; a tag is a string like a title
NoTodo ==
    [title |-> <<>>, priority |-> "", tags |-> <<>>, completed |-> FALSE,
     createdAt |-> 0, updatedAt |-> 0]

\* CreateTodoDto: given holds the optional fields that are present
CreateDtos ==
    {[title |-> t, given |-> {}, priority |-> "", tags |-> <<>>] : t \in TitleInputs}
    \cup {[title |-> <<"x">>, given |-> {"priority", "tags"},
            priority |-> "high", tags |-> <<<<"t">>>>]}

NoCreateDto == [title |-> <<>>, given |-> {}, priority |-> "", tags |-> <<>>]

\* the errors a call rejects with; "DexieError" is what the storage layer
\* rejects with
Errors == {"TodoNotFoundError", "DatabaseError", "DexieError"}

\* a catch block that wraps whatever was thrown
CatchWrapsAll(error) == "DatabaseError"

\* the catch block of getTodo, updateTodo, deleteTodo and toggleTodo:
\*   if (error instanceof TodoNotFoundError) throw error;
\*   throw new DatabaseError(...)
Catch(error) == IF error = "TodoNotFoundError" THEN error ELSE "DatabaseError"

\* UpdateTodoDto: given holds the fields that are not undefined
NoDto ==
    [given |-> {}, title |-> <<>>, priority |-> "", tags |-> <<>>,
     completed |-> FALSE]

UpdateDtos ==
    { [NoDto EXCEPT !.given = {"title"}, !.title = <<" ">>],
      [NoDto EXCEPT !.given = {"priority"}, !.priority = "high"],
      [NoDto EXCEPT !.given = {"tags", "completed"}, !.tags = <<<<"t">>>>,
                    !.completed = TRUE] }

NoCall ==
    [op |-> "none", ids |-> <<>>, items |-> <<>>, i |-> 0, at |-> 0,
     overwrite |-> FALSE, snapshot |-> EmptyStore, pre |-> EmptyStore]

\* dueDate undefined (or the empty string: both are falsy)
NoDue == -1

\* todo.dueDate and todo.notes, optional properties
DueDate(todo) == IF "dueDate" \in DOMAIN todo THEN todo.dueDate ELSE NoDue

Notes(todo) == IF "notes" \in DOMAIN todo THEN todo.notes ELSE <<>>

\* String.prototype.toLowerCase over the characters used here
ToLowerCase(str) ==
    [i \in DOMAIN str |->
        IF str[i] = "X" THEN "x" ELSE IF str[i] = "W" THEN "w" ELSE str[i]]

\* String.prototype.includes
Includes(str, sub) ==
    \E i \in 1..(Len(str) - Len(sub) + 1) : SubSeq(str, i, i + Len(sub) - 1) = sub

\* TodoFilter: has holds the criteria that are not undefined
NoFilter ==
    [has |-> {}, completed |-> FALSE, tag |-> <<>>, priority |-> "",
     dueBefore |-> 0, dueAfter |-> 0, search |-> <<>>]

\* the counts of getStats
NoStats == [total |-> 0, completed |-> 0, pending |-> 0, overdue |-> 0]

\* a view without a call in progress
NoOp ==
    [op |-> "none", id |-> "", dto |-> NoDto, pc |-> "none", at |-> 0,
     todos |-> EmptyStore]

NoResult ==
    [op |-> "none", ok |-> TRUE, err |-> "none", ids |-> <<>>, items |-> <<>>,
     overwrite |-> FALSE, pre |-> EmptyStore, done |-> 0, dto |-> NoCreateDto,
     got |-> NoTodo, thrown |-> "none", filter |-> NoFilter, stats |-> NoStats]

NoStreak == [id |-> "", n |-> 0, was |-> FALSE, ups |-> <<>>]

\* what a completed call leaves for the caller to see: whether it resolved
\* (ok) or rejected and with which error (err), its arguments (ids, items,
\* overwrite, dto), for a bulk or import call the table as it was when the
\* call was made (pre) and the number of table writes it had carried out
\* (done), for getTodo the todo it returned (got); thrown is the error as it
\* left the try block, before the catch block looked at it; for listTodos
\* the filter it was given, for getStats the counts it returned (stats) and
\* the table as it was when getStats read it (pre)
Result(op, ok, ids, items, overwrite, pre) ==
    [NoResult EXCEPT !.op = op, !.ok = ok,
                     !.err = IF ok THEN "none" ELSE "DatabaseError",
                     !.thrown = IF ok THEN "none" ELSE "DexieError",
                     !.ids = ids, !.items = items, !.overwrite = overwrite,
                     !.pre = pre]

\* the sequences over S of length 0..n
SeqUpTo(S, n) == UNION {[1..k -> S] : k \in 0..n}

Range(f) == {f[x] : x \in DOMAIN f}

\* Table.delete(key): removing an absent key is not an error, and the promise
\* resolves with undefined whether or not the key was there
TableDelete(s, id) == [i \in DOMAIN s \ {id} |-> s[i]]

\* the 'creating' hook of TodoDatabase: both timestamps are set to the clock
CreatingHook(obj, t) == [obj EXCEPT !.createdAt = t, !.updatedAt = t]

\* Table.add / Table.put: a key that is new goes through the 'creating' hook;
\* an existing key is replaced by the given object (the 'updating' hook
\* assigns to its argument and returns nothing, which Dexie ignores)
TablePut(s, id, obj, t) ==
    [i \in DOMAIN s \cup {id} |->
        IF i = id
        THEN (IF id \in DOMAIN s THEN obj ELSE CreatingHook(obj, t))
        ELSE s[i]]

\* the updates object of updateTodo and bulkComplete: the fields of ch.given
\* and updatedAt
Changes(dto, t) ==
    [given |-> dto.given \cup {"updatedAt"}, title |-> Trim(dto.title),
     priority |-> dto.priority, tags |-> dto.tags, completed |-> dto.completed,
     updatedAt |-> t]

\* the object with every field taken from the changes, given or not
ChangedEveryField(item, ch) ==
    [title |-> ch.title, priority |-> ch.priority, tags |-> ch.tags,
     completed |-> ch.completed, createdAt |-> item.createdAt,
     updatedAt |-> ch.updatedAt]

\* the object after the changes are applied to it
Changed(item, ch) ==
    [title     |-> IF "title" \in ch.given THEN ch.title ELSE item.title,
     priority  |-> IF "priority" \in ch.given THEN ch.priority ELSE item.priority,
     tags      |-> IF "tags" \in ch.given THEN ch.tags ELSE item.tags,
     completed |-> IF "completed" \in ch.given THEN ch.completed ELSE item.completed,
     createdAt |-> item.createdAt,
     updatedAt |-> IF "updatedAt" \in ch.given THEN ch.updatedAt ELSE item.updatedAt]

\* Collection.modify(changes) compares each given property with !==, so an
\* array (tags) always counts as modified, a string or a boolean only when it
\* is another value
Modifies(item, ch) == "tags" \in ch.given \/ Changed(item, ch) # item

\* Table.update(key, changes), the table afterwards: an absent key changes
\* nothing
TableUpdate(s, id, ch) ==
    IF id \in DOMAIN s THEN [s EXCEPT ![id] = Changed(s[id], ch)] ELSE s

\* Table.update(key, changes), the number it resolves with: 0 when the key is
\* absent and also when no given property differs from the stored one
UpdateCount(s, id, ch) ==
    IF id \in DOMAIN s /\ Modifies(s[id], ch) THEN 1 ELSE 0

\* Table.update(key, changes) with changes = {completed, updatedAt}
TableUpdateCompleted(s, id, completed, t) ==
    TableUpdate(s, id, Changes([NoDto EXCEPT !.given = {"completed"},
                                             !.completed = completed], t))

\* new Date() moves on
Tick ==
    /\ now < MaxTime
    /\ now' = now + 1
    /\ last' = NoResult
    /\ UNCHANGED <<store, call, ops, streak>>
    /\ UNCHANGED calls
    /\ RepoOnly

\* createTodo taking priority and tags from its argument as they are
NewTodoNoDefaults(dto, t) ==
    [title |-> Trim(dto.title), priority |-> dto.priority, tags |-> dto.tags,
     completed |-> FALSE, createdAt |-> t, updatedAt |-> t]

\* the todo createTodo builds from its argument, lines 24-34
NewTodo(dto, t) ==
    [title |-> Trim(dto.title),
     priority |-> IF "priority" \in dto.given /\ dto.priority # ""
                  THEN dto.priority ELSE "normal",
     tags |-> IF "tags" \in dto.given THEN dto.tags ELSE <<>>,
     completed |-> FALSE, createdAt |-> t, updatedAt |-> t]

\* TodoRepository.createTodo: no check of the title, it is trimmed and stored.
\* db.todos.add rejects when the key is in the table already, or when the
\* storage layer fails; the catch block wraps either into DatabaseError
createTodo ==
    /\ calls < MaxCalls
    /\ calls' = calls + 1
    /\ call.op = "none"
    /\ \E id \in Ids, dto \in CreateDtos :
          \/ /\ id \notin DOMAIN store
             /\ store' = TablePut(store, id, NewTodo(dto, now), now)
             /\ last' = [Result("createTodo", TRUE, <<id>>, <<>>, FALSE, EmptyStore)
                            EXCEPT !.dto = dto]
          \/ /\ store' = store
             /\ last' = [Result("createTodo", FALSE, <<id>>, <<>>, FALSE, EmptyStore)
                            EXCEPT !.dto = dto]
    /\ streak' = NoStreak
    /\ UNCHANGED <<now, call, ops>>
    /\ RepoOnly

\* QuickAddTodo.handleSubmit: the form returns without calling onAdd when the
\* title is empty after trimming, otherwise it hands {title: trimmedTitle} to
\* createTodo
handleSubmit ==
    /\ calls < MaxCalls
    /\ calls' = calls + 1
    /\ call.op = "none"
    /\ \E id \in Ids \ DOMAIN store, title \in TitleInputs :
          LET dto == [NoCreateDto EXCEPT !.title = Trim(title)]
          IN IF Trim(title) = <<>>
             THEN /\ store' = store
                  /\ last' = [Result("handleSubmit", FALSE, <<>>, <<>>, FALSE, EmptyStore)
                                 EXCEPT !.err = "none", !.dto.title = title]
             ELSE /\ store' = TablePut(store, id, NewTodo(dto, now), now)
                  /\ last' = [Result("handleSubmit", TRUE, <<id>>, <<>>, FALSE, EmptyStore)
                                 EXCEPT !.dto.title = title]
    /\ streak' = NoStreak
    /\ UNCHANGED <<now, call, ops>>
    /\ RepoOnly

\* db.todos.get(id) and the check that follows it in getTodo
Found(s, id) == id \in DOMAIN s

\* TodoRepository.getTodo
getTodo ==
    /\ calls < MaxCalls
    /\ calls' = calls + 1
    /\ call.op = "none"
    /\ \E id \in Ids :
          \/ /\ Found(store, id)
             /\ last' = [Result("getTodo", TRUE, <<id>>, <<>>, FALSE, EmptyStore)
                            EXCEPT !.got = store[id]]
          \/ /\ ~Found(store, id)
             /\ last' = [Result("getTodo", FALSE, <<id>>, <<>>, FALSE, EmptyStore)
                            EXCEPT !.err = Catch("TodoNotFoundError"),
                                   !.thrown = "TodoNotFoundError"]
          \/ \* db.todos.get rejects
             last' = [Result("getTodo", FALSE, <<id>>, <<>>, FALSE, EmptyStore)
                         EXCEPT !.err = Catch("DexieError")]
    /\ UNCHANGED <<store, now, call, ops, streak>>
    /\ RepoOnly

\* what db.todos.delete(id) resolves with: undefined, whether or not the key
\* was in the table
DeleteResult(s, id) == "undefined"

\* TodoRepository.deleteTodo: result === 0 is the test for NotFoundError
deleteTodo ==
    /\ calls < MaxCalls
    /\ calls' = calls + 1
    /\ call.op = "none"
    /\ \E id \in Ids :
          \/ /\ store' = TableDelete(store, id)
             /\ last' = IF DeleteResult(store, id) = "0"
                        THEN [Result("deleteTodo", FALSE, <<id>>, <<>>, FALSE, EmptyStore)
                                 EXCEPT !.err = Catch("TodoNotFoundError"),
                                   !.thrown = "TodoNotFoundError"]
                        ELSE Result("deleteTodo", TRUE, <<id>>, <<>>, FALSE, EmptyStore)
          \/ /\ store' = store         \* db.todos.delete rejects
             /\ last' = [Result("deleteTodo", FALSE, <<id>>, <<>>, FALSE, EmptyStore)
                            EXCEPT !.err = Catch("DexieError")]
    /\ streak' = NoStreak
    /\ UNCHANGED <<now, call, ops>>
    /\ RepoOnly

(***************************************************************************)
(* updateTodo and toggleTodo read the todo and write it in separate awaited *)
(* requests: each request is a step, and other calls run between them.     *)
(***************************************************************************)
\* no other view has a call in progress
Quiet(v) == \A w \in Views \ {v} : ops[w].op = "none"

\* the outcome of a call that ends with error thrown: the catch blocks on the
\* way (of getTodo, of updateTodo, of toggleTodo) all pass a NotFoundError on
\* and wrap anything else; reached tells that the call had got to its write
Failed(op, id, error, reached) ==
    [Result(op, FALSE, <<id>>, <<>>, FALSE, EmptyStore)
        EXCEPT !.err = Catch(error), !.thrown = error,
               !.done = IF reached THEN 1 ELSE 0]

\* the toggles completed one right after the other, this one included
Extended(sk, id, pre, post) ==
    IF sk.id = id /\ sk.n = 1
    THEN [sk EXCEPT !.n = 2, !.ups = Append(@, post[id].updatedAt)]
    ELSE [id |-> id, n |-> 1, was |-> pre[id].completed,
          ups |-> <<pre[id].updatedAt, post[id].updatedAt>>]

\* the awaited this.getTodo(id) of updateTodo (line 152) and toggleTodo (line
\* 246), made by a call op of view v; next is where the call stands when the
\* todo is there
GetStep(v, op, id, dto, next) ==
    \/ /\ Found(store, id)
       /\ ops' = [ops EXCEPT ![v] = [op |-> op, id |-> id, dto |-> dto,
                                     pc |-> next, at |-> now,
                                     todos |-> EmptyStore]]
       /\ last' = NoResult
    \/ /\ ~Found(store, id)
       /\ ops' = [ops EXCEPT ![v] = NoOp]
       /\ last' = Failed(op, id, "TodoNotFoundError", FALSE)
    \/ /\ ops' = [ops EXCEPT ![v] = NoOp]       \* db.todos.get rejects
       /\ last' = Failed(op, id, "DexieError", FALSE)

\* TodoRepository.updateTodo up to the write: getTodo, then the updates object
\* with updatedAt read from the clock
updateTodo(v) ==
    /\ calls < MaxCalls
    /\ calls' = calls + 1
    /\ call.op = "none"
    /\ ops[v].op = "none"
    /\ \E id \in Ids, dto \in UpdateDtos : GetStep(v, "updateTodo", id, dto, "write")
    /\ streak' = NoStreak
    /\ UNCHANGED <<store, now, call>>
    /\ RepoOnly

\* updateTodo, lines 177-180: result === 0 throws NotFoundError
ThrowsNotFound(s, id, ch) == UpdateCount(s, id, ch) = 0

\* updateTodo, lines 177-180: await db.todos.update(id, updates)
updateTodoWrite(v) ==
    /\ call.op = "none"
    /\ ops[v].pc = "write"
    /\ LET o  == ops[v]
           ch == Changes(o.dto, o.at)
       IN \/ /\ store' = TableUpdate(store, o.id, ch)
             /\ IF ThrowsNotFound(store, o.id, ch)
                THEN /\ last' = Failed(o.op, o.id, "TodoNotFoundError", TRUE)
                     /\ streak' = NoStreak
                ELSE /\ last' = [Result(o.op, TRUE, <<o.id>>, <<>>, FALSE, EmptyStore)
                                    EXCEPT !.done = 1]
                     /\ streak' = IF o.op = "toggleTodo" /\ Quiet(v)
                                  THEN Extended(streak, o.id, store, store')
                                  ELSE NoStreak
          \/ /\ store' = store              \* db.todos.update rejects
             /\ last' = Failed(o.op, o.id, "DexieError", TRUE)
             /\ streak' = NoStreak
    /\ ops' = [ops EXCEPT ![v] = NoOp]
    /\ UNCHANGED <<now, call>>
    /\ UNCHANGED calls
    /\ RepoOnly

\* TodoRepository.toggleTodo up to its call of updateTodo: getTodo, and
\* {completed: !todo.completed} as the argument
toggleTodo(v) ==
    /\ calls < MaxCalls
    /\ calls' = calls + 1
    /\ call.op = "none"
    /\ ops[v].op = "none"
    /\ \E id \in Ids :
          GetStep(v, "toggleTodo", id,
                  [NoDto EXCEPT !.given = {"completed"},
                                !.completed = IF Found(store, id)
                                              THEN ~store[id].completed ELSE FALSE],
                  "get")
    /\ streak' = IF Quiet(v) THEN streak ELSE NoStreak
    /\ UNCHANGED <<store, now, call>>
    /\ RepoOnly

\* the updateTodo that toggleTodo calls, up to the write
toggleTodoUpdate(v) ==
    /\ call.op = "none"
    /\ ops[v].pc = "get"
    /\ GetStep(v, ops[v].op, ops[v].id, ops[v].dto, "write")
    /\ streak' = IF Quiet(v) THEN streak ELSE NoStreak
    /\ UNCHANGED <<store, now, call>>
    /\ UNCHANGED calls
    /\ RepoOnly

(***************************************************************************)
(* Bulk operations: one 'rw' transaction on the todos table around a loop  *)
(* of awaited writes.  The transaction holds the table, so nothing else    *)
(* runs on it until it commits or aborts.                                  *)
(***************************************************************************)
\* the transaction was left without a rollback
NoRollback(c, s) == s

\* db.transaction('rw', db.todos, body): when the body rejects, the
\* transaction aborts and the table is what it was when the transaction began
Rollback(c, s) == c.snapshot

\* TodoRepository.bulkComplete, up to the first awaited write
bulkComplete ==
    /\ calls < MaxCalls
    /\ calls' = calls + 1
    /\ call.op = "none"
    /\ \E ids \in SeqUpTo(Ids, MaxBulk) :
          call' = [NoCall EXCEPT !.op = "bulkComplete", !.ids = ids, !.i = 1,
                                 !.at = now, !.snapshot = store, !.pre = store]
    /\ last' = NoResult
    /\ UNCHANGED <<store, now>>
    /\ streak' = NoStreak
    /\ UNCHANGED ops
    /\ RepoOnly

\* TodoRepository.bulkDelete, up to the first awaited write
bulkDelete ==
    /\ calls < MaxCalls
    /\ calls' = calls + 1
    /\ call.op = "none"
    /\ \E ids \in SeqUpTo(Ids, MaxBulk) :
          call' = [NoCall EXCEPT !.op = "bulkDelete", !.ids = ids, !.i = 1,
                                 !.at = now, !.snapshot = store, !.pre = store]
    /\ last' = NoResult
    /\ UNCHANGED <<store, now>>
    /\ streak' = NoStreak
    /\ UNCHANGED ops
    /\ RepoOnly

\* one turn of the loop: await db.todos.update(id, updates) / db.todos.delete(id)
BulkWrite ==
    /\ call.op \in {"bulkComplete", "bulkDelete"}
    /\ call.i <= Len(call.ids)
    /\ store' = IF call.op = "bulkComplete"
                THEN TableUpdateCompleted(store, call.ids[call.i], TRUE, call.at)
                ELSE TableDelete(store, call.ids[call.i])
    /\ call' = [call EXCEPT !.i = call.i + 1]
    /\ last' = NoResult
    /\ UNCHANGED now
    /\ streak' = NoStreak
    /\ UNCHANGED ops
    /\ UNCHANGED calls
    /\ RepoOnly

\* the awaited write (or the commit) fails in the storage engine: the body
\* rejects, the transaction aborts, the call rejects with DatabaseError
BulkStorageFailure ==
    /\ call.op \in {"bulkComplete", "bulkDelete"}
    /\ store' = Rollback(call, store)
    /\ last' = [Result(call.op, FALSE, call.ids, <<>>, FALSE, call.pre)
                   EXCEPT !.done = call.i - 1]
    /\ call' = NoCall
    /\ UNCHANGED now
    /\ streak' = NoStreak
    /\ UNCHANGED ops
    /\ UNCHANGED calls
    /\ RepoOnly

\* the loop is over: the transaction commits and the call resolves
BulkCommit ==
    /\ call.op \in {"bulkComplete", "bulkDelete"}
    /\ call.i > Len(call.ids)
    /\ last' = [Result(call.op, TRUE, call.ids, <<>>, FALSE, call.pre)
                   EXCEPT !.done = call.i - 1]
    /\ call' = NoCall
    /\ UNCHANGED <<store, now>>
    /\ streak' = NoStreak
    /\ UNCHANGED ops
    /\ UNCHANGED calls
    /\ RepoOnly

(***************************************************************************)
(* Import.  A record of the JSON file: id and title as written, completed  *)
(* as the JSON value ("true", "false", or "str" for anything that is not a *)
(* boolean), and the two timestamps.                                       *)
(***************************************************************************)
ImportRecords ==
    { [id |-> "a", title |-> <<"x">>, completed |-> "true",  priority |-> "normal",
       tags |-> <<>>, createdAt |-> 0, updatedAt |-> 1],
      [id |-> "b", title |-> <<" ">>, completed |-> "false", priority |-> "high",
       tags |-> <<<<"t">>>>, createdAt |-> 1, updatedAt |-> 0],
      [id |-> "",  title |-> <<"x">>, completed |-> "true",  priority |-> "normal",
       tags |-> <<>>, createdAt |-> 0, updatedAt |-> 0],
      [id |-> "a", title |-> <<>>,    completed |-> "false", priority |-> "normal",
       tags |-> <<>>, createdAt |-> 0, updatedAt |-> 0],
      [id |-> "b", title |-> <<"x">>, completed |-> "str",   priority |-> "normal",
       tags |-> <<>>, createdAt |-> 0, updatedAt |-> 0] }

\* the check of importTodos:
\*   !todo.id || !todo.title || typeof todo.completed !== 'boolean'  => throw
ValidImport(r) ==
    ~ (r.id = "" \/ r.title = <<>> \/ r.completed \notin {"true", "false"})

\* the object db.todos.put receives
ImportedTodo(r) ==
    [title |-> r.title, priority |-> r.priority, tags |-> r.tags,
     completed |-> (r.completed = "true"),
     createdAt |-> r.createdAt, updatedAt |-> r.updatedAt]

\* the table when the import's transaction begins: clear() has already run,
\* on its own, before db.transaction is called
TableAtImportTransaction(s, overwrite) == IF overwrite THEN EmptyStore ELSE s

\* TodoRepository.importTodos up to the transaction: JSON.parse, the array
\* check, and with overwrite the awaited db.todos.clear().  The records of the
\* array are drawn as the loop reaches them (ImportPut, ImportInvalid) and the
\* end of the array in ImportCommit: the loop never looks ahead, so this is
\* every array of at most MaxImport records.
importTodos ==
    /\ calls < MaxCalls
    /\ calls' = calls + 1
    /\ call.op = "none"
    /\ \E isArray \in BOOLEAN, overwrite \in BOOLEAN :
          \/ /\ ~isArray              \* 'Invalid JSON format: expected array'
             /\ store' = store
             /\ call' = NoCall
             /\ last' = Result("importTodos", FALSE, <<>>, <<>>, overwrite, store)
          \/ /\ isArray
             /\ overwrite             \* db.todos.clear() rejects: DatabaseError
             /\ store' = store
             /\ call' = NoCall
             /\ last' = Result("importTodos", FALSE, <<>>, <<>>, overwrite, store)
          \/ /\ isArray
             /\ store' = TableAtImportTransaction(store, overwrite)
             /\ call' = [NoCall EXCEPT !.op = "importTodos", !.i = 1, !.at = now,
                                       !.overwrite = overwrite,
                                       !.snapshot = store', !.pre = store]
             /\ last' = NoResult
    /\ UNCHANGED now
    /\ streak' = NoStreak
    /\ UNCHANGED ops
    /\ RepoOnly

\* one turn of the loop on a record that passes the check: await db.todos.put(todo)
ImportPut ==
    /\ call.op = "importTodos"
    /\ call.i <= MaxImport
    /\ \E r \in ImportRecords :
          /\ ValidImport(r)
          /\ store' = TablePut(store, r.id, ImportedTodo(r), now)
          /\ call' = [call EXCEPT !.i = call.i + 1, !.items = Append(call.items, r)]
    /\ last' = NoResult
    /\ UNCHANGED now
    /\ streak' = NoStreak
    /\ UNCHANGED ops
    /\ UNCHANGED calls
    /\ RepoOnly

\* one turn of the loop on a record that fails the check: 'Invalid todo
\* format' is thrown inside the transaction, which aborts
ImportInvalid ==
    /\ call.op = "importTodos"
    /\ call.i <= MaxImport
    /\ \E r \in ImportRecords :
          /\ ~ValidImport(r)
          /\ store' = Rollback(call, store)
          /\ last' = [Result("importTodos", FALSE, <<>>, Append(call.items, r),
                             call.overwrite, call.pre)
                         EXCEPT !.done = call.i - 1]
    /\ call' = NoCall
    /\ UNCHANGED now
    /\ streak' = NoStreak
    /\ UNCHANGED ops
    /\ UNCHANGED calls
    /\ RepoOnly

\* db.todos.put (or the commit) fails in the storage engine
ImportStorageFailure ==
    /\ call.op = "importTodos"
    /\ store' = Rollback(call, store)
    /\ last' = [Result("importTodos", FALSE, <<>>, call.items, call.overwrite, call.pre)
                   EXCEPT !.done = call.i - 1]
    /\ call' = NoCall
    /\ UNCHANGED now
    /\ streak' = NoStreak
    /\ UNCHANGED ops
    /\ UNCHANGED calls
    /\ RepoOnly

\* the loop is over: the transaction commits, the call returns todos.length
ImportCommit ==
    /\ call.op = "importTodos"
    /\ last' = [Result("importTodos", TRUE, <<>>, call.items, call.overwrite, call.pre)
                   EXCEPT !.done = call.i - 1]
    /\ call' = NoCall
    /\ UNCHANGED <<store, now>>
    /\ streak' = NoStreak
    /\ UNCHANGED ops
    /\ UNCHANGED calls
    /\ RepoOnly

\* the primary keys in the order of the index
IdOrder == <<"a", "b">>

\* the place of a primary key in that order
Rank(id) == CHOOSE k \in 1..Len(IdOrder) : IdOrder[k] = id

\* the filter callbacks of listTodos, lines 69-101, one after the other:
\* completed is tested against undefined, the other criteria for being truthy
\* (an empty string is skipped)
Passes(todo, filter) ==
    /\ "completed" \in filter.has => todo.completed = filter.completed
    /\ ("tag" \in filter.has /\ filter.tag # <<>>) =>
          filter.tag \in Range(todo.tags)
    /\ ("priority" \in filter.has /\ filter.priority # "") =>
          todo.priority = filter.priority
    /\ "dueBefore" \in filter.has =>
          DueDate(todo) # NoDue /\ DueDate(todo) <= filter.dueBefore
    /\ "dueAfter" \in filter.has =>
          DueDate(todo) # NoDue /\ DueDate(todo) >= filter.dueAfter
    /\ ("search" \in filter.has /\ filter.search # <<>>) =>
          LET searchTerm == ToLowerCase(filter.search)
          IN \/ Includes(ToLowerCase(todo.title), searchTerm)
             \/ Includes(ToLowerCase(Notes(todo)), searchTerm)
             \/ \E k \in DOMAIN todo.tags :
                   Includes(ToLowerCase(todo.tags[k]), searchTerm)

\* orderBy('createdAt') without reverse()
BeforeOldestFirst(s, id, other) ==
    \/ s[id].createdAt < s[other].createdAt
    \/ s[id].createdAt = s[other].createdAt /\ Rank(id) < Rank(other)

\* id comes before other in db.todos.orderBy('createdAt').reverse(): later
\* createdAt first, and for equal createdAt the larger primary key first
Before(s, id, other) ==
    \/ s[id].createdAt > s[other].createdAt
    \/ s[id].createdAt = s[other].createdAt /\ Rank(id) > Rank(other)

\* the keys of ids in that order
RECURSIVE Ordered(_, _)
Ordered(s, ids) ==
    IF ids = {} THEN <<>>
    ELSE LET first == CHOOSE id \in ids : \A other \in ids \ {id} : Before(s, id, other)
         IN <<first>> \o Ordered(s, ids \ {first})

\* what listTodos(filter) resolves with: the primary keys of the todos
ListTodos(s, filter) ==
    Ordered(s, {id \in DOMAIN s : Passes(s[id], filter)})

\* JSON.stringify of a todo, as the record JSON.parse gives back: booleans are
\* written as true / false
ToJson(id, todo) ==
    [id |-> id, title |-> todo.title,
     completed |-> IF todo.completed THEN "true" ELSE "false",
     priority |-> todo.priority, tags |-> todo.tags,
     createdAt |-> todo.createdAt, updatedAt |-> todo.updatedAt]

\* db.todos.toArray(): the todos in the order of their primary keys
RECURSIVE ToArray(_, _)
ToArray(s, k) ==
    IF k > Len(IdOrder) THEN <<>>
    ELSE (IF IdOrder[k] \in DOMAIN s
          THEN <<ToJson(IdOrder[k], s[IdOrder[k]])>> ELSE <<>>)
         \o ToArray(s, k + 1)

\* what exportTodos resolves with
Export(s) == ToArray(s, 1)

\* TodoRepository.exportTodos
exportTodos ==
    /\ calls < MaxCalls
    /\ calls' = calls + 1
    /\ call.op = "none"
    /\ \/ last' = Result("exportTodos", TRUE, <<>>, Export(store), FALSE, EmptyStore)
       \/ \* db.todos.toArray rejects: DatabaseError
          last' = Result("exportTodos", FALSE, <<>>, <<>>, FALSE, EmptyStore)
    /\ streak' = NoStreak
    /\ UNCHANGED <<store, now, call, ops>>
    /\ RepoOnly

\* the loop of importTodos from record k on, the storage layer working: the
\* table and whether the transaction committed
RECURSIVE ImportLoop(_, _, _, _, _)
ImportLoop(c, s, items, k, t) ==
    IF k > Len(items) THEN [ok |-> TRUE, store |-> s]
    ELSE IF ~ValidImport(items[k]) THEN [ok |-> FALSE, store |-> Rollback(c, s)]
    ELSE ImportLoop(c, TablePut(s, items[k].id, ImportedTodo(items[k]), t),
                    items, k + 1, t)

\* importTodos(JSON of items, overwrite) called at time t on table s, the
\* storage layer working
ImportAll(s, items, overwrite, t) ==
    LET start == TableAtImportTransaction(s, overwrite)
    IN ImportLoop([NoCall EXCEPT !.snapshot = start], start, items, 1, t)

(***************************************************************************)
(* listTodos and getStats read the table; they are run on tables drawn     *)
(* from ListStores, whose todos carry notes and due dates.                 *)
(***************************************************************************)
\* todos as create, update and import leave them
ListTodoSet ==
    { [title |-> <<"x">>, priority |-> "normal", tags |-> <<>>,
       completed |-> FALSE, createdAt |-> 0, updatedAt |-> 0],
      [title |-> <<"X", "w">>, dueDate |-> 0, priority |-> "high",
       tags |-> << <<"w">> >>, completed |-> FALSE, createdAt |-> 1, updatedAt |-> 1],
      [title |-> <<"x">>, notes |-> <<"W">>, dueDate |-> 2, priority |-> "high",
       tags |-> << <<"t">>, <<"w">> >>, completed |-> TRUE, createdAt |-> 1,
       updatedAt |-> 2],
      [title |-> <<"t">>, notes |-> <<>>, dueDate |-> 1, priority |-> "low",
       tags |-> << <<"x", "w">> >>, completed |-> TRUE, createdAt |-> 2,
       updatedAt |-> 2],
      [title |-> <<"w">>, dueDate |-> 1, priority |-> "normal", tags |-> <<>>,
       completed |-> FALSE, createdAt |-> 0, updatedAt |-> 1] }

ListStores == UNION {[ids -> ListTodoSet] : ids \in SUBSET Ids}

\* a filter with the criteria of has set, completed to c and search to q
FilterOf(h, c, q) ==
    [has |-> h, completed |-> c, tag |-> <<"w">>, priority |-> "high",
     dueBefore |-> 1, dueAfter |-> 1, search |-> q]

\* the filters the views pass to listTodos: none, one or two criteria, and
\* all of them
Filters ==
    { FilterOf(h, FALSE, <<"W">>) :
        h \in { g \in SUBSET {"completed", "tag", "priority", "dueBefore",
                               "dueAfter", "search"} :
                    Cardinality(g) <= 2 \/ Cardinality(g) = 6 } }
    \cup { FilterOf({"completed"}, TRUE, <<>>), FilterOf({"search"}, FALSE, <<>>),
           FilterOf({"search", "tag"}, FALSE, <<"x">>) }

\* TodoRepository.listTodos: one read of the table
listTodos ==
    /\ calls < MaxCalls
    /\ calls' = calls + 1
    /\ call.op = "none"
    /\ \E filter \in Filters :
          \/ last' = [Result("listTodos", TRUE, ListTodos(store, filter), <<>>,
                             FALSE, EmptyStore) EXCEPT !.filter = filter]
          \/ \* collection.toArray rejects: DatabaseError
             last' = [Result("listTodos", FALSE, <<>>, <<>>, FALSE, EmptyStore)
                         EXCEPT !.filter = filter]
    /\ UNCHANGED <<store, now, call, ops, streak>>
    /\ RepoOnly

\* the todos of the array that getStats counts as overdue at clock reading t
Overdue(todos, t) ==
    {id \in DOMAIN todos :
        ~todos[id].completed /\ DueDate(todos[id]) # NoDue /\ DueDate(todos[id]) < t}

\* getStats counting every todo as pending
StatsAllPending(todos, t) ==
    [total     |-> Cardinality(DOMAIN todos),
     completed |-> Cardinality({id \in DOMAIN todos : todos[id].completed}),
     pending   |-> Cardinality(DOMAIN todos),
     overdue   |-> Cardinality(Overdue(todos, t))]

\* getStats, lines 269-283: the counts over the array todos, the clock
\* reading t
Stats(todos, t) ==
    [total     |-> Cardinality(DOMAIN todos),
     completed |-> Cardinality({id \in DOMAIN todos : todos[id].completed}),
     pending   |-> Cardinality({id \in DOMAIN todos : ~todos[id].completed}),
     overdue   |-> Cardinality(Overdue(todos, t))]

\* TodoRepository.getStats up to line 267: await db.todos.toArray(), one read
\* of the table
getStats(v) ==
    /\ calls < MaxCalls
    /\ calls' = calls + 1
    /\ call.op = "none"
    /\ ops[v].op = "none"
    /\ \/ /\ ops' = [ops EXCEPT ![v] = [NoOp EXCEPT !.op = "getStats",
                                                    !.pc = "count",
                                                    !.todos = store]]
          /\ last' = NoResult
       \/ /\ ops' = ops                  \* db.todos.toArray rejects
          /\ last' = Result("getStats", FALSE, <<>>, <<>>, FALSE, store)
    /\ UNCHANGED <<store, now, call, streak>>
    /\ RepoOnly

\* getStats from line 268 on: the clock is read and the array is counted
getStatsCount(v) ==
    /\ ops[v].op = "getStats"
    /\ last' = [Result("getStats", TRUE, <<>>, <<>>, FALSE, ops[v].todos)
                   EXCEPT !.stats = Stats(ops[v].todos, now)]
    /\ ops' = [ops EXCEPT ![v] = NoOp]
    /\ UNCHANGED <<store, now, call, streak, calls>>
    /\ RepoOnly

\* a table with todos in it, and no call made yet
InitList ==
    /\ store \in ListStores
    /\ now = 0
    /\ call = NoCall
    /\ ops = [v \in Views \cup Pages |-> NoOp]
    /\ last = NoResult
    /\ streak = NoStreak
    /\ calls = 0

\* the reads of the table, with the clock moving and todos being deleted by
\* other calls
NextList ==
    \/ Tick
    \/ deleteTodo
    \/ listTodos
    \/ \E v \in Views :
          \/ getStats(v)
          \/ getStatsCount(v)

InitRepo ==
    /\ store = EmptyStore
    /\ now = 0
    /\ call = NoCall
    /\ ops = [v \in Views \cup Pages |-> NoOp]
    /\ last = NoResult
    /\ streak = NoStreak
    /\ calls = 0

NextRepo ==
    \/ Tick
    \/ createTodo
    \/ deleteTodo
    \/ exportTodos
    \/ bulkComplete
    \/ bulkDelete
    \/ BulkWrite
    \/ BulkStorageFailure
    \/ BulkCommit
    \/ importTodos
    \/ ImportPut
    \/ ImportInvalid
    \/ ImportStorageFailure
    \/ ImportCommit


\* the calls on single todos, made from the views
NextCrud ==
    \/ Tick
    \/ createTodo
    \/ handleSubmit
    \/ getTodo
    \/ deleteTodo
    \/ \E v \in Views :
          \/ updateTodo(v)
          \/ updateTodoWrite(v)
          \/ toggleTodo(v)
          \/ toggleTodoUpdate(v)

(***************************************************************************)
(* Claims about the repository                                             *)
(***************************************************************************)
ListedIds(r) == Range(r.ids)

\* C1: a bulkComplete / bulkDelete call that fails leaves the table as it was
\* when the call was made; one that succeeds has completed / deleted every
\* listed id that was in the table.
C1_BulkAllOrNothing ==
    last.op \in {"bulkComplete", "bulkDelete"} =>
        IF ~last.ok
        THEN store = last.pre
        ELSE \A id \in ListedIds(last) :
                IF last.op = "bulkDelete"
                THEN id \notin DOMAIN store
                ELSE id \in DOMAIN last.pre =>
                        id \in DOMAIN store /\ store[id].completed

\* a bulk call failed after it had already written to a todo that was in the
\* table and, for bulkComplete, was not completed
C1_Witness ==
    /\ last.op \in {"bulkComplete", "bulkDelete"}
    /\ ~last.ok
    /\ last.done >= 1
    /\ last.ids[1] \in DOMAIN last.pre
    /\ ~last.pre[last.ids[1]].completed

HasInvalidRecord(items) == \E k \in 1..Len(items) : ~ValidImport(items[k])

\* C2: an import whose data holds an invalid record fails and leaves the
\* table exactly as it was before the call, with and without overwrite.
C2_InvalidImportLeavesStore ==
    (last.op = "importTodos" /\ HasInvalidRecord(last.items)) =>
        (~last.ok /\ store = last.pre)


\* C13: whatever the table holds, exporting it and importing the export with
\* overwrite into an empty table, now or later, succeeds and gives a table
\* equal to it field for field.
C13_ExportImportRoundTrip ==
    (last.op = "exportTodos" /\ last.ok) =>
        \A t \in now..MaxTime :
            /\ ImportAll(EmptyStore, last.items, TRUE, t).ok
            /\ ImportAll(EmptyStore, last.items, TRUE, t).store = store

\* C14: createTodo with a title that is empty after trimming fails and adds
\* no todo to the table.
C14_BlankTitleRejected ==
    (last.op = "createTodo" /\ Trim(last.dto.title) = <<>>) =>
        /\ ~last.ok
        /\ last.ids[1] \notin DOMAIN store \/ Trim(store[last.ids[1]].title) # <<>>

\* C15: in every state of the table, the title of every todo is non-empty
\* after trimming.
C15_TitlesNeverBlank ==
    \A id \in DOMAIN store : Trim(store[id].title) # <<>>

\* C16: a createTodo that succeeds returns a key no todo had before; the todo
\* under that key is not completed, has createdAt = updatedAt, priority normal
\* when none was given, no tags when none were given, and is listed among the
\* todos that are not completed; the todos that were in the table are as
\* they were.
C16_CreateDefaults ==
    [][(last'.op = "createTodo" /\ last'.ok) =>
          LET id == last'.ids[1] IN
          /\ id \notin DOMAIN store
          /\ Found(store', id)
          /\ ~store'[id].completed
          /\ store'[id].createdAt = store'[id].updatedAt
          /\ "priority" \notin last'.dto.given => store'[id].priority = "normal"
          /\ "tags" \notin last'.dto.given => store'[id].tags = <<>>
          /\ id \in Range(ListTodos(store', [NoFilter EXCEPT !.has = {"completed"}]))
          /\ \A other \in DOMAIN store : store'[other] = store[other]
      ]_vars

\* a todo was created without priority and tags beside a todo that was there
C16_Witness ==
    /\ last.op = "createTodo"
    /\ last.ok
    /\ last.dto.given = {}
    /\ Cardinality(DOMAIN store) = 2
    /\ store[last.ids[1]].priority = "normal"

\* C17: after two toggleTodo calls on a todo, one right after the other,
\* completed is what it was, and updatedAt has grown strictly with each of
\* the two.
C17_ToggleTwice ==
    streak.n = 2 =>
        /\ store[streak.id].completed = streak.was
        /\ streak.ups[1] < streak.ups[2]
        /\ streak.ups[2] < streak.ups[3]

\* C18: deleteTodo of a key that is not in the table fails with NotFoundError
\* and leaves the table as it is; of a key in the table it removes that todo
\* and no other.
C18_DeleteNotFound ==
    [][(last'.op = "deleteTodo" /\ last'.err # "DatabaseError") =>
          LET id == last'.ids[1] IN
          IF id \notin DOMAIN store
          THEN last'.err = "TodoNotFoundError" /\ store' = store
          ELSE last'.ok /\ store' = [i \in DOMAIN store \ {id} |-> store[i]]
      ]_vars

\* C19: getTodo, updateTodo and toggleTodo of a key that is not in the table
\* fail with NotFoundError, not DatabaseError, unless the storage layer itself
\* failed, and leave the table as it is; no step of updateTodo or toggleTodo
\* puts a todo under a key that was not in the table, also when the todo was
\* deleted between their read and their write.
C19_AbsentKeyNotFound ==
    [][/\ (/\ last'.op \in {"getTodo", "updateTodo", "toggleTodo"}
           /\ last'.ids[1] \notin DOMAIN store) =>
              /\ ~last'.ok
              /\ last'.thrown # "DexieError" => last'.err = "TodoNotFoundError"
              /\ store' = store
       /\ (\E v \in Views : ops'[v] # ops[v]) => DOMAIN store' \subseteq DOMAIN store
      ]_vars

\* an updateTodo read its todo, the todo was deleted, and the write that
\* followed found nothing: NotFoundError, and the table is empty
C19_Witness ==
    /\ last.op = "updateTodo"
    /\ last.err = "TodoNotFoundError"
    /\ last.done = 1
    /\ last.ids[1] \notin DOMAIN store

\* the fields of a todo
Fields == {"title", "priority", "tags", "completed", "createdAt", "updatedAt"}

\* C20: the write of updateTodo on a todo that is in the table changes only
\* fields that updateTodo was given and updatedAt: createdAt and every field
\* not given keep their values, the todo stays under its key, and no other
\* todo changes; when it succeeds, the fields given hold the values given
\* (the title trimmed) and updatedAt the time updateTodo read.
C20_UpdateFrame ==
    [][\A v \in Views :
          (/\ ops[v].op = "updateTodo"
           /\ ops[v].pc = "write"
           /\ ops'[v] = NoOp
           /\ ops[v].id \in DOMAIN store) =>
              /\ DOMAIN store' = DOMAIN store
              /\ \A f \in Fields \ (ops[v].dto.given \cup {"updatedAt"}) :
                    store'[ops[v].id][f] = store[ops[v].id][f]
              /\ last'.ok =>
                    /\ store'[ops[v].id].updatedAt = ops[v].at
                    /\ \A f \in ops[v].dto.given :
                          store'[ops[v].id][f] =
                              IF f = "title" THEN Trim(ops[v].dto.title)
                              ELSE ops[v].dto[f]
              /\ \A other \in DOMAIN store \ {ops[v].id} : store'[other] = store[other]
      ]_vars

\* an updateTodo given only a priority has changed the priority of one of
\* two todos
C20_Witness ==
    /\ last.op = "updateTodo"
    /\ last.ok
    /\ Cardinality(DOMAIN store) = 2
    /\ store[last.ids[1]].priority = "high"
    /\ store[last.ids[1]].tags = <<>>
    /\ store[last.ids[1]].title # <<>>

\* C23: outside a transaction every todo of the table has updatedAt >=
\* createdAt, and a todo that was in the table when a bulkComplete or an
\* importTodos without overwrite was called has the createdAt it had then
\* when the call has succeeded.
C23_TimestampsOrdered ==
    /\ call.op = "none" =>
          \A id \in DOMAIN store : store[id].updatedAt >= store[id].createdAt
    /\ (last.op \in {"bulkComplete", "importTodos"} /\ last.ok /\ ~last.overwrite) =>
          \A id \in DOMAIN last.pre \cap DOMAIN store :
              store[id].createdAt = last.pre[id].createdAt

\* C24: a bulkDelete call that lists an id that was not in the table when it
\* was called deletes nothing: the table afterwards is the table as it was.
C24_BulkDeleteAbsentIdDeletesNothing ==
    (last.op = "bulkDelete" /\ \E id \in ListedIds(last) : id \notin DOMAIN last.pre) =>
        store = last.pre

\* one of the texts of the todo (title, notes, a tag) holds term, whatever
\* the case of the letters
Mentions(todo, term) ==
    \E text \in {todo.title, Notes(todo)} \cup Range(todo.tags) :
        \E i \in 1..Len(text), j \in 1..Len(text) :
            ToLowerCase(SubSeq(text, i, j)) = ToLowerCase(term)

\* the todos of the table that satisfy every criterion that filter sets (an
\* empty string sets none)
Matching(s, filter) ==
    {id \in DOMAIN s :
        /\ "completed" \in filter.has => s[id].completed = filter.completed
        /\ ("tag" \in filter.has /\ filter.tag # <<>>) =>
              \E k \in DOMAIN s[id].tags : s[id].tags[k] = filter.tag
        /\ ("priority" \in filter.has /\ filter.priority # "") =>
              s[id].priority = filter.priority
        /\ "dueBefore" \in filter.has =>
              "dueDate" \in DOMAIN s[id] /\ s[id].dueDate <= filter.dueBefore
        /\ "dueAfter" \in filter.has =>
              "dueDate" \in DOMAIN s[id] /\ s[id].dueDate >= filter.dueAfter
        /\ ("search" \in filter.has /\ filter.search # <<>>) =>
              Mentions(s[id], filter.search)}

\* C21: listTodos(filter) resolves with exactly the todos of the table that
\* satisfy every criterion set in the filter (completed, tag, priority, due
\* date range, search in title, notes and tags), each once, a later createdAt
\* before an earlier one.
C21_ListFilterAndOrder ==
    (last.op = "listTodos" /\ last.ok) =>
        /\ Range(last.ids) = Matching(store, last.filter)
        /\ Len(last.ids) = Cardinality(Matching(store, last.filter))
        /\ \A i \in 1..Len(last.ids), j \in 1..Len(last.ids) :
              i < j => store[last.ids[i]].createdAt >= store[last.ids[j]].createdAt

\* a list with two criteria set that holds two todos with different
\* createdAt
C21_Witness ==
    /\ last.op = "listTodos"
    /\ last.ok
    /\ last.filter.has = {"completed", "search"}
    /\ Len(last.ids) = 2
    /\ store[last.ids[1]].createdAt > store[last.ids[2]].createdAt

\* C22: the counts getStats returns are the counts over the table as it was
\* at one moment, the moment getStats read it: total = completed + pending,
\* overdue <= pending, and total, completed and pending are the numbers of
\* all, completed and not completed todos of that table, also when todos
\* were deleted while getStats ran.
C22_StatsFromOneSnapshot ==
    (last.op = "getStats" /\ last.ok) =>
        /\ last.stats.total = last.stats.completed + last.stats.pending
        /\ last.stats.overdue <= last.stats.pending
        /\ last.stats.total = Cardinality(DOMAIN last.pre)
        /\ last.stats.completed =
              Cardinality({id \in DOMAIN last.pre : last.pre[id].completed})
        /\ last.stats.overdue =
              Cardinality({id \in DOMAIN last.pre :
                  /\ ~last.pre[id].completed
                  /\ "dueDate" \in DOMAIN last.pre[id]
                  /\ last.pre[id].dueDate < now})

\* getStats has counted two todos, one of them completed and one overdue,
\* after one of them was deleted from the table
C22_Witness ==
    /\ last.op = "getStats"
    /\ last.ok
    /\ last.stats.total = 2
    /\ last.stats.completed = 1
    /\ last.stats.overdue = 1
    /\ Cardinality(DOMAIN store) = 1

(***************************************************************************)
(* Service worker: src/public/sw.js                                        *)
(***************************************************************************)

CACHE_NAME == "todo-pwa-v1"

OFFLINE_URL == "/offline"

STATIC_CACHE_FILES == {"/", "/offline", "/today", "/completed", "/manifest.webmanifest"}

RUNTIME_CACHE ==
    [pages  |-> "pages-cache-v1",
     api    |-> "api-cache-v1",
     static |-> "static-cache-v1",
     images |-> "images-cache-v1"]

CACHE_STRATEGIES ==
    [CACHE_FIRST |-> "cache-first",
     NETWORK_FIRST |-> "network-first",
     STALE_WHILE_REVALIDATE |-> "stale-while-revalidate",
     NETWORK_ONLY |-> "network-only"]

\* the strategy of networkFirstWithOfflineFallback, which the table above
\* does not name
PAGE_STRATEGY == "network-first-with-offline-fallback"

\* Object.values(RUNTIME_CACHE)
RuntimeCacheNames == Range(RUNTIME_CACHE)

\* regions left behind by older generations or by other code of the origin
StaleNames == {"todo-pwa-v0", "tmp-cache"}

\* the same-origin GET requests the pages issue
Urls ==
    {"/api/a.png", "/_next/static/app.js", "/icons/icon.png", "/logo.png",
     "/manifest.webmanifest", "/today"}

\* url.pathname, as the sequence of its pieces: "/", ".", "\\" and the words
\* between them
Pathname(u) ==
    CASE u = "/api/a.png"            -> <<"/", "api", "/", "a", ".", "png">>
      [] u = "/_next/static/app.js"  -> <<"/", "_next", "/", "static", "/", "app", ".", "js">>
      [] u = "/icons/icon.png"       -> <<"/", "icons", "/", "icon", ".", "png">>
      [] u = "/logo.png"             -> <<"/", "logo", ".", "png">>
      [] u = "/manifest.webmanifest" -> <<"/", "manifest", ".", "webmanifest">>
      [] u = "/today"                -> <<"/", "today">>
      [] u = "/offline"              -> <<"/", "offline">>
      [] u = "/completed"            -> <<"/", "completed">>
      [] u = "/"                     -> <<"/">>

\* String.prototype.startsWith
StartsWith(p, prefix) ==
    Len(p) >= Len(prefix) /\ SubSeq(p, 1, Len(prefix)) = prefix

\* the pieces that are one character long
SingleChars == {"/", ".", "\\", "a"}

\* pathname.match(/\\.(png|jpg|jpeg|svg|webp|gif)$/): in the regular
\* expression literal \\ is a backslash and the . that follows any one
\* character, so the path has to end in a backslash, one character and one of
\* the extensions
MatchesImagePattern(p) ==
    /\ Len(p) >= 3
    /\ p[Len(p) - 2] = "\\"
    /\ p[Len(p) - 1] \in SingleChars
    /\ p[Len(p)] \in {"png", "jpg", "jpeg", "svg", "webp", "gif"}

\* handleRequest: the strategy and the region of the first rule that matches
Route(u) ==
    LET pathname == Pathname(u) IN
    IF StartsWith(pathname, <<"/", "api", "/">>)
    THEN [strategy |-> CACHE_STRATEGIES.NETWORK_FIRST, region |-> RUNTIME_CACHE.api]
    ELSE IF StartsWith(pathname, <<"/", "_next", "/", "static", "/">>)
    THEN [strategy |-> CACHE_STRATEGIES.CACHE_FIRST, region |-> RUNTIME_CACHE.static]
    ELSE IF StartsWith(pathname, <<"/", "icons", "/">>) \/ MatchesImagePattern(pathname)
    THEN [strategy |-> CACHE_STRATEGIES.CACHE_FIRST, region |-> RUNTIME_CACHE.images]
    ELSE IF pathname = <<"/", "manifest", ".", "webmanifest">>
    THEN [strategy |-> CACHE_STRATEGIES.STALE_WHILE_REVALIDATE, region |-> CACHE_NAME]
    ELSE [strategy |-> PAGE_STRATEGY, region |-> RUNTIME_CACHE.pages]

(***************************************************************************)
(* Responses.  src is the id of the intercepted request whose fetch        *)
(* produced the response; 0 for the fetches of cache.addAll.  url is       *)
(* response.url, the resource the body is a copy of; "" for a response     *)
(* made with new Response(...).                                            *)
(***************************************************************************)
NoResp == [kind |-> "none", ok |-> FALSE, src |-> 0, url |-> ""]

\* what a handler that returns undefined hands to event.respondWith
Undefined == [kind |-> "undefined", ok |-> FALSE, src |-> 0, url |-> ""]

\* new Response(<offline document>, {headers: {'Content-Type': 'text/html'}, status: 200})
Generated == [kind |-> "generated-html", ok |-> TRUE, src |-> 0, url |-> ""]

\* how a fetch ends: a 2xx response, another response, or a rejection
NetOutcomes == {"ok", "notok", "fail"}

NetResponse(id, u, outcome) ==
    [kind |-> "network", ok |-> (outcome = "ok"), src |-> id, url |-> u]

\* the response cache.addAll stored for file f
Precached(f) == [kind |-> "network", ok |-> TRUE, src |-> 0, url |-> f]

EmptyCache == [u \in {} |-> NoResp]

\* caches.open(name): the region is created when it does not exist
Open(c, n) ==
    IF n \in DOMAIN c THEN c
    ELSE [m \in DOMAIN c \cup {n} |-> IF m = n THEN EmptyCache ELSE c[m]]

\* cache.match(request): NoResp stands for undefined
Match(c, n, u) ==
    IF n \in DOMAIN c /\ u \in DOMAIN c[n] THEN c[n][u] ELSE NoResp

\* cache.put(request, response)
Put(c, n, u, r) ==
    [m \in DOMAIN c \cup {n} |->
        IF m = n
        THEN [v \in (IF n \in DOMAIN c THEN DOMAIN c[n] ELSE {}) \cup {u} |->
                 IF v = u THEN r ELSE c[n][v]]
        ELSE c[m]]

\* caches.delete(name)
Delete(c, n) == [m \in DOMAIN c \ {n} |-> c[m]]

\* response.ok
IsOk(r) == r.ok

(***************************************************************************)
(* The four strategies.  Each is split where it awaits fetch(request):     *)
(* ...Begin is the part before the fetch settles, ...Settle the part after.*)
(* Begin yields what cache.match gave (matched, cached), whether the       *)
(* handler has returned already (responded, resp) and the number of        *)
(* fetch(request) calls made.  Settle yields the caches, the response      *)
(* returned, whether the strategy threw instead, and what the cache.match  *)
(* made after a failed fetch gave (fallback); caught tells that the        *)
(* response comes from the catch block of handleRequest.                   *)
(***************************************************************************)
Began(matched, cached, responded, fetches) ==
    [matched |-> matched, cached |-> cached, responded |-> responded,
     resp |-> IF responded THEN cached ELSE NoResp, fetches |-> fetches]

Settled(c, resp, threw, fallback) ==
    [caches |-> c, resp |-> resp, threw |-> threw, fallback |-> fallback,
     caught |-> FALSE]

\* the response is stored whatever its status
StoreAlways(c, n, u, r) == Put(c, n, u, r)

\* the part of the strategies that handles a network response:
\*   if (networkResponse.ok) { await cache.put(request, networkResponse.clone()) }
StoreIfOk(c, n, u, r) == IF IsOk(r) THEN Put(c, n, u, r) ELSE c

\* cacheFirst going to the network although the cache answered
cacheFirstBeginAlwaysFetches(c, n, u) ==
    Began(TRUE, Match(c, n, u), FALSE, 1)

\* cacheFirst, lines 148-156
cacheFirstBegin(c, n, u) ==
    LET cachedResponse == Match(c, n, u) IN
    IF cachedResponse # NoResp
    THEN Began(TRUE, cachedResponse, TRUE, 0)
    ELSE Began(TRUE, NoResp, FALSE, 1)

\* cacheFirst, lines 156-164
cacheFirstSettle(c, n, u, id, outcome) ==
    IF outcome # "fail"
    THEN Settled(StoreIfOk(c, n, u, NetResponse(id, u, outcome)),
                 NetResponse(id, u, outcome), FALSE, NoResp)
    ELSE Settled(c, NoResp, TRUE, NoResp)

\* networkFirst, lines 171-174
networkFirstBegin(c, n, u) == Began(FALSE, NoResp, FALSE, 1)

\* networkFirst returning the response without storing it
networkFirstSettleNoStore(c, n, u, id, outcome) ==
    IF outcome # "fail"
    THEN Settled(c, NetResponse(id, u, outcome), FALSE, NoResp)
    ELSE LET cachedResponse == Match(c, n, u) IN
         IF cachedResponse # NoResp
         THEN Settled(c, cachedResponse, FALSE, cachedResponse)
         ELSE Settled(c, NoResp, TRUE, NoResp)

\* networkFirst, lines 174-186
networkFirstSettle(c, n, u, id, outcome) ==
    IF outcome # "fail"
    THEN Settled(StoreIfOk(c, n, u, NetResponse(id, u, outcome)),
                 NetResponse(id, u, outcome), FALSE, NoResp)
    ELSE LET cachedResponse == Match(c, n, u) IN
         IF cachedResponse # NoResp
         THEN Settled(c, cachedResponse, FALSE, cachedResponse)
         ELSE Settled(c, NoResp, TRUE, NoResp)

\* staleWhileRevalidate awaiting fetchPromise although the cache answered
staleWhileRevalidateBeginWaits(c, n, u) ==
    Began(TRUE, Match(c, n, u), FALSE, 1)

\* staleWhileRevalidate, lines 193-209: the fetch is issued in both cases; with
\* a cached response the handler returns it at once
staleWhileRevalidateBegin(c, n, u) ==
    LET cachedResponse == Match(c, n, u) IN
    IF cachedResponse # NoResp
    THEN Began(TRUE, cachedResponse, TRUE, 1)
    ELSE Began(TRUE, NoResp, FALSE, 1)

\* staleWhileRevalidate whose then callback does not store the response
staleWhileRevalidateSettleNoStore(c, n, u, id, outcome) ==
    IF outcome # "fail"
    THEN Settled(c, NetResponse(id, u, outcome), FALSE, NoResp)
    ELSE Settled(c, Undefined, FALSE, NoResp)

\* staleWhileRevalidate, lines 197-204: the then / catch callbacks of the
\* fetch; the value of fetchPromise is the response, or undefined after catch
staleWhileRevalidateSettle(c, n, u, id, outcome) ==
    IF outcome # "fail"
    THEN Settled(StoreIfOk(c, n, u, NetResponse(id, u, outcome)),
                 NetResponse(id, u, outcome), FALSE, NoResp)
    ELSE Settled(c, Undefined, FALSE, NoResp)

\* getOfflineFallback
getOfflineFallback(c) ==
    LET offlineResponse == Match(c, CACHE_NAME, OFFLINE_URL) IN
    Settled(Open(c, CACHE_NAME),
            IF offlineResponse # NoResp THEN offlineResponse ELSE Generated,
            FALSE, NoResp)

\* networkFirstWithOfflineFallback, lines 219-222
networkFirstWithOfflineFallbackBegin(c, n, u) == Began(FALSE, NoResp, FALSE, 1)

\* networkFirstWithOfflineFallback going to the offline page without looking
\* into the pages region
networkFirstWithOfflineFallbackSkipsCache(c, n, u, id, outcome) ==
    IF outcome # "fail"
    THEN Settled(StoreIfOk(c, n, u, NetResponse(id, u, outcome)),
                 NetResponse(id, u, outcome), FALSE, NoResp)
    ELSE getOfflineFallback(c)

\* networkFirstWithOfflineFallback, lines 222-238
networkFirstWithOfflineFallbackSettle(c, n, u, id, outcome) ==
    IF outcome # "fail"
    THEN Settled(StoreIfOk(c, n, u, NetResponse(id, u, outcome)),
                 NetResponse(id, u, outcome), FALSE, NoResp)
    ELSE LET cachedResponse == Match(c, n, u) IN
         IF cachedResponse # NoResp
         THEN Settled(c, cachedResponse, FALSE, cachedResponse)
         ELSE getOfflineFallback(c)

\* handleRequest, before the fetch settles
HandleBegin(c, rt, u) ==
    CASE rt.strategy = CACHE_STRATEGIES.NETWORK_FIRST -> networkFirstBegin(c, rt.region, u)
      [] rt.strategy = CACHE_STRATEGIES.CACHE_FIRST -> cacheFirstBegin(c, rt.region, u)
      [] rt.strategy = CACHE_STRATEGIES.STALE_WHILE_REVALIDATE ->
             staleWhileRevalidateBegin(c, rt.region, u)
      [] OTHER -> networkFirstWithOfflineFallbackBegin(c, rt.region, u)

\* the strategy that r runs, after the fetch settles
StrategySettle(c, r, outcome) ==
    CASE r.strategy = CACHE_STRATEGIES.NETWORK_FIRST ->
             networkFirstSettle(c, r.region, r.url, r.id, outcome)
      [] r.strategy = CACHE_STRATEGIES.CACHE_FIRST ->
             cacheFirstSettle(c, r.region, r.url, r.id, outcome)
      [] r.strategy = CACHE_STRATEGIES.STALE_WHILE_REVALIDATE ->
             staleWhileRevalidateSettle(c, r.region, r.url, r.id, outcome)
      [] OTHER ->
             networkFirstWithOfflineFallbackSettle(c, r.region, r.url, r.id, outcome)

\* handleRequest without its catch block: what the strategy throws reaches
\* event.respondWith
HandleSettlePropagates(c, r, outcome) == StrategySettle(c, r, outcome)

\* handleRequest, after the fetch settles: what the strategy returns, or, when
\* it threw, what getOfflineFallback returns in the catch block
HandleSettle(c, r, outcome) ==
    LET s == StrategySettle(c, r, outcome)
    IN IF s.threw
       THEN [getOfflineFallback(s.caches) EXCEPT !.caught = TRUE]
       ELSE s

NoReq == [i \in {} |-> 0]

\* the fetch of request id for url u has settled
Answered(h, u, id, outcome) == IF outcome = "ok" THEN [h EXCEPT ![u] = id] ELSE h

NoDone ==
    [id |-> 0, url |-> "", strategy |-> "", region |-> "", pc |-> "none",
     matched |-> FALSE, cached |-> NoResp, fallback |-> NoResp, resp |-> NoResp,
     fetches |-> 0, net |-> "none", caught |-> FALSE]

(***************************************************************************)
(* Lifecycle                                                               *)
(***************************************************************************)
\* the filter with the test of the runtime names turned around
IsOldCacheInverted(name) == name # CACHE_NAME /\ name \in RuntimeCacheNames

\* a filter that takes every region for an old one
IsOldCacheEveryRegion(name) == TRUE

\* the filter of the activate handler:
\*   name !== CACHE_NAME && !Object.values(RUNTIME_CACHE).includes(name)
IsOldCache(name) == name # CACHE_NAME /\ name \notin RuntimeCacheNames

\* install event.  cache.addAll fetches every file and stores them all, or
\* rejects and stores none when a fetch fails or answers outside 2xx.  The
\* catch block only logs, so the promise given to event.waitUntil is
\* fulfilled either way and the worker becomes installed.
Install ==
    /\ swState = "parsed"
    /\ \E fetched \in [STATIC_CACHE_FILES -> NetOutcomes] :
          IF \A f \in STATIC_CACHE_FILES : fetched[f] = "ok"
          THEN /\ caches' = [m \in DOMAIN caches \cup {CACHE_NAME} |->
                               IF m = CACHE_NAME
                               THEN [f \in STATIC_CACHE_FILES |-> Precached(f)]
                               ELSE caches[m]]
               /\ precache' = "ok"
               /\ skipWaitingFlag' = TRUE
          ELSE /\ caches' = Open(caches, CACHE_NAME)
               /\ precache' = "failed"
               /\ skipWaitingFlag' = skipWaitingFlag
    /\ swState' = "installed"
    /\ done' = NoDone
    /\ UNCHANGED <<oldCaches, olderActive, claimed, pendingDel, delFailed, reqs, nextReq>>
    /\ UNCHANGED lastOk
    /\ WorkerOnly

\* message event with {type: 'SKIP_WAITING'}
MessageSkipWaiting ==
    /\ swState \in {"installed", "activating", "activated"}
    /\ ~skipWaitingFlag
    /\ skipWaitingFlag' = TRUE
    /\ done' = NoDone
    /\ UNCHANGED <<oldCaches, swState, olderActive, claimed, precache, caches, pendingDel,
                   delFailed, reqs, nextReq>>
    /\ UNCHANGED lastOk
    /\ WorkerOnly

\* the browser activates an installed worker when no older generation is
\* active or the worker has called skipWaiting.  activate event, lines 67-73:
\* caches.keys(), and one caches.delete(name) started for every old cache
Activate ==
    /\ swState = "installed"
    /\ ~olderActive \/ skipWaitingFlag
    /\ swState' = "activating"
    /\ oldCaches' = {name \in DOMAIN caches : IsOldCache(name)}
    /\ pendingDel' = oldCaches'
    /\ done' = NoDone
    /\ UNCHANGED <<olderActive, skipWaitingFlag, claimed, precache, caches,
                   delFailed, reqs, nextReq>>
    /\ UNCHANGED lastOk
    /\ WorkerOnly

\* a caches.delete(name) of the activate handler is fulfilled
DeleteFulfilled ==
    /\ \E name \in pendingDel :
          /\ caches' = Delete(caches, name)
          /\ pendingDel' = pendingDel \ {name}
    /\ done' = NoDone
    /\ UNCHANGED <<oldCaches, swState, olderActive, skipWaitingFlag, claimed, precache,
                   delFailed, reqs, nextReq>>
    /\ UNCHANGED lastOk
    /\ WorkerOnly

\* a caches.delete(name) of the activate handler rejects: Promise.all rejects
\* with it, the catch block logs, clients.claim() is not reached and the
\* activation is over; the other deletions go on
DeleteRejected ==
    /\ \E name \in pendingDel : pendingDel' = pendingDel \ {name}
    /\ delFailed' = TRUE
    /\ swState' = IF swState = "activating" THEN "activated" ELSE swState
    /\ olderActive' = IF swState = "activating" THEN FALSE ELSE olderActive
    /\ done' = NoDone
    /\ UNCHANGED <<oldCaches, skipWaitingFlag, claimed, precache, caches, reqs, nextReq>>
    /\ UNCHANGED lastOk
    /\ WorkerOnly

\* activate event, lines 75-79: every deletion is fulfilled, clients.claim()
ActivateClaim ==
    /\ swState = "activating"
    /\ pendingDel = {}
    /\ ~delFailed
    /\ claimed' = TRUE
    /\ swState' = "activated"
    /\ olderActive' = FALSE
    /\ done' = NoDone
    /\ UNCHANGED <<oldCaches, skipWaitingFlag, precache, caches, pendingDel, delFailed,
                   reqs, nextReq>>
    /\ UNCHANGED lastOk
    /\ WorkerOnly

(***************************************************************************)
(* Fetch events                                                            *)
(***************************************************************************)
\* fetch event for a same-origin GET request, up to the point where the
\* strategy awaits the network or returns from the cache
FetchEvent ==
    /\ swState = "activated"
    /\ nextReq <= MaxRequests
    /\ Cardinality(DOMAIN reqs) < MaxInflight
    /\ \E u \in Urls :
          LET rt  == Route(u)
              c   == Open(caches, rt.region)
              b   == HandleBegin(c, rt, u)
              rec == [id |-> nextReq, url |-> u, strategy |-> rt.strategy,
                      region |-> rt.region,
                      pc |-> IF ~b.responded THEN "fetching"
                             ELSE IF b.fetches > 0 THEN "revalidating" ELSE "done",
                      matched |-> b.matched, cached |-> b.cached,
                      fallback |-> NoResp, resp |-> b.resp,
                      fetches |-> b.fetches, net |-> "none", caught |-> FALSE]
          IN /\ caches' = c
             /\ IF rec.pc = "done"
                THEN /\ done' = rec
                     /\ reqs' = reqs
                ELSE /\ done' = NoDone
                     /\ reqs' = [i \in DOMAIN reqs \cup {nextReq} |->
                                   IF i = nextReq THEN rec ELSE reqs[i]]
    /\ nextReq' = nextReq + 1
    /\ UNCHANGED <<oldCaches, swState, olderActive, skipWaitingFlag, claimed, precache,
                   pendingDel, delFailed>>
    /\ UNCHANGED lastOk
    /\ WorkerOnly

\* the fetch a handler is waiting for settles; the handler returns
FetchSettles ==
    /\ \E id \in DOMAIN reqs, outcome \in NetOutcomes :
          /\ reqs[id].pc = "fetching"
          /\ LET s == HandleSettle(caches, reqs[id], outcome) IN
             /\ caches' = s.caches
             /\ done' = [reqs[id] EXCEPT !.pc = "done", !.resp = s.resp,
                                         !.net = outcome, !.fallback = s.fallback,
                                         !.caught = s.caught]
          /\ reqs' = [i \in DOMAIN reqs \ {id} |-> reqs[i]]
          /\ lastOk' = Answered(lastOk, reqs[id].url, id, outcome)
    /\ UNCHANGED <<oldCaches, swState, olderActive, skipWaitingFlag, claimed, precache,
                   pendingDel, delFailed, nextReq>>
    /\ WorkerOnly

\* the fetch that staleWhileRevalidate left running settles after the handler
\* has returned the cached response
BackgroundFetchSettles ==
    /\ \E id \in DOMAIN reqs, outcome \in NetOutcomes :
          /\ reqs[id].pc = "revalidating"
          /\ caches' = staleWhileRevalidateSettle(caches, reqs[id].region,
                                                  reqs[id].url, id, outcome).caches
          /\ done' = [reqs[id] EXCEPT !.pc = "done", !.net = outcome]
          /\ reqs' = [i \in DOMAIN reqs \ {id} |-> reqs[i]]
          /\ lastOk' = Answered(lastOk, reqs[id].url, id, outcome)
    /\ UNCHANGED <<oldCaches, swState, olderActive, skipWaitingFlag, claimed, precache,
                   pendingDel, delFailed, nextReq>>
    /\ WorkerOnly

InitSW ==
    /\ swState = "parsed"
    /\ olderActive \in BOOLEAN
    /\ skipWaitingFlag = FALSE
    /\ claimed = FALSE
    /\ precache = "none"
    /\ \E names \in SUBSET (StaleNames \cup {RUNTIME_CACHE.pages}) :
          caches = [n \in names |-> EmptyCache]
    /\ oldCaches = {}
    /\ pendingDel = {}
    /\ delFailed = FALSE
    /\ reqs = NoReq
    /\ nextReq = 1
    /\ done = NoDone
    /\ lastOk = [u \in Urls |-> 0]

NextSW ==
    \/ Install
    \/ MessageSkipWaiting
    \/ Activate
    \/ DeleteFulfilled
    \/ DeleteRejected
    \/ ActivateClaim
    \/ FetchEvent
    \/ FetchSettles
    \/ BackgroundFetchSettles


(***************************************************************************)
(* Claims about the service worker                                         *)
(***************************************************************************)
\* the intercepted requests the worker knows of: those in progress and the
\* one completed in the last step
Requests ==
    {reqs[i] : i \in DOMAIN reqs} \cup (IF done.pc = "done" THEN {done} ELSE {})

\* the precached offline-shell document, if the primary region holds one
OfflineShell == Match(caches, CACHE_NAME, OFFLINE_URL)

\* C3: a page request is always answered: with the network response (stored
\* in the pages region before it is returned when it is 2xx); when the fetch
\* fails with the pages-region entry of the request if there is one; otherwise
\* with the precached offline shell of the primary region if there is one;
\* otherwise with the generated document (status 200, HTML).
C3_PageResponseOrder ==
    (done.pc = "done" /\ done.strategy = PAGE_STRATEGY) =>
        LET entry == Match(caches, RUNTIME_CACHE.pages, done.url) IN
        /\ done.resp.kind \in {"network", "generated-html"}
        /\ done.net \in NetOutcomes
        /\ done.net = "ok" =>
              /\ done.resp = NetResponse(done.id, done.url, "ok")
              /\ entry = done.resp
        /\ done.net = "notok" => done.resp = NetResponse(done.id, done.url, "notok")
        /\ done.net = "fail" =>
              done.resp = IF entry # NoResp THEN entry
                          ELSE IF OfflineShell # NoResp THEN OfflineShell
                          ELSE Generated

\* a page request whose fetch failed was answered from the pages region
C3_Witness ==
    /\ done.pc = "done"
    /\ done.strategy = PAGE_STRATEGY
    /\ done.net = "fail"
    /\ Match(caches, RUNTIME_CACHE.pages, done.url) # NoResp
    /\ done.resp = Match(caches, RUNTIME_CACHE.pages, done.url)

\* no cache.match made for the request found an entry
NoCacheEntry(r) == r.cached = NoResp /\ r.fallback = NoResp

\* C4: under every strategy, a request whose fetch failed and for which no
\* cache entry exists is answered with the precached offline shell or with
\* the generated offline document, never with an error or with nothing.
C4_OfflineResponseWhenNothingElse ==
    \A r \in Requests :
        (r.pc = "done" /\ r.net = "fail" /\ NoCacheEntry(r)) =>
            /\ r.resp.kind \notin {"none", "undefined"}
            /\ r.resp \in {OfflineShell, Generated}

\* the files of the precache set that the primary region holds
PrecachedFiles ==
    IF CACHE_NAME \in DOMAIN caches
    THEN STATIC_CACHE_FILES \cap DOMAIN caches[CACHE_NAME]
    ELSE {}

\* C5: when a fetch of the precache set fails during install, the generation
\* never reaches the waiting (installed) state, never becomes current, and the
\* primary region holds none of the batch.
C5_FailedPrecacheFailsInstall ==
    precache = "failed" =>
        /\ swState \notin {"installed", "activating", "activated"}
        /\ PrecachedFiles = {}

\* the names that may exist after activation
CurrentCacheNames == {CACHE_NAME} \cup RuntimeCacheNames

\* C6 as stated: once activation is over, whatever regions existed before,
\* every existing region is the primary region or one of the four runtime
\* regions.
C6_OnlyCurrentRegionsRemain ==
    swState = "activated" => DOMAIN caches \subseteq CurrentCacheNames

\* C6 as amended: once an activation in which no deletion failed is over,
\* every existing region is the primary region or one of the four runtime
\* regions.
C6_OnlyCurrentRegionsRemainUnlessDeleteFailed ==
    (swState = "activated" /\ ~delFailed) => DOMAIN caches \subseteq CurrentCacheNames

\* an activation that had old regions to delete is over, no deletion failed
C6_Witness ==
    /\ swState = "activated"
    /\ ~delFailed
    /\ oldCaches # {}
    /\ claimed

\* C8: every cache entry is a 2xx response; a non-2xx network response is
\* what the handler that waited for it returns, and it is not stored.
C8_OnlyOkResponsesCached ==
    /\ \A n \in DOMAIN caches : \A u \in DOMAIN caches[n] : caches[n][u].ok
    /\ (done.pc = "done" /\ done.net = "notok") =>
          /\ Match(caches, done.region, done.url) # NetResponse(done.id, done.url, "notok")
          /\ done.cached = NoResp => done.resp = NetResponse(done.id, done.url, "notok")

\* a non-2xx response came back for a request whose region holds an entry,
\* and the entry is still the older 2xx response
C8_Witness ==
    /\ done.pc = "done"
    /\ done.net = "notok"
    /\ done.resp = NetResponse(done.id, done.url, "notok")
    /\ Match(caches, done.region, done.url) # NoResp
    /\ Match(caches, done.region, done.url).src # done.id

\* C9: a cache-first request for which the region holds an entry is answered
\* with that entry, and no fetch is issued for it.
C9_CacheFirstHitNoFetch ==
    \A r \in Requests :
        (r.strategy = CACHE_STRATEGIES.CACHE_FIRST /\ r.cached # NoResp) =>
            /\ r.pc = "done"
            /\ r.fetches = 0
            /\ r.net = "none"
            /\ r.resp = r.cached
            /\ r.resp = Match(caches, r.region, r.url)

\* a cache-first request was answered from its region
C9_Witness ==
    /\ done.pc = "done"
    /\ done.strategy = CACHE_STRATEGIES.CACHE_FIRST
    /\ done.cached # NoResp
    /\ done.resp = done.cached

\* C10: a manifest request for which the primary region holds an entry is
\* answered with that entry while its fetch is still running, exactly one
\* fetch is issued for it, and the response of that fetch is not the one the
\* request is answered with.
C10_StaleWhileRevalidateHit ==
    \A r \in Requests :
        (r.strategy = CACHE_STRATEGIES.STALE_WHILE_REVALIDATE /\ r.cached # NoResp) =>
            /\ r.pc \in {"revalidating", "done"}
            /\ r.resp = r.cached
            /\ r.fetches = 1
            /\ r.resp.src # r.id
            /\ r.pc = "revalidating" => r.net = "none"
            /\ r.pc = "done" => r.resp # NetResponse(r.id, r.url, r.net)

\* a manifest request was answered from the cache and its background fetch
\* has since succeeded and replaced the entry
C10_Witness ==
    /\ done.pc = "done"
    /\ done.strategy = CACHE_STRATEGIES.STALE_WHILE_REVALIDATE
    /\ done.cached # NoResp
    /\ done.net = "ok"
    /\ Match(caches, CACHE_NAME, done.url) = NetResponse(done.id, done.url, "ok")
    /\ done.resp # Match(caches, CACHE_NAME, done.url)

\* C11 as stated: a cache-first or API request whose fetch failed and for
\* which no cache entry exists gets no response: the failure reaches the
\* requester, and no offline page stands in for it.
C11_FailurePropagates ==
    \A r \in Requests :
        (/\ r.pc = "done"
         /\ r.strategy \in {CACHE_STRATEGIES.CACHE_FIRST, CACHE_STRATEGIES.NETWORK_FIRST}
         /\ r.net = "fail"
         /\ NoCacheEntry(r)) => r.resp = NoResp

\* C11 as amended: for such a request the strategy throws, the catch block of
\* the dispatcher takes the failure, and the requester is answered with the
\* precached offline shell if the primary region holds it, otherwise with the
\* generated offline document.
C11_FailureBecomesOfflineResponse ==
    \A r \in Requests :
        (/\ r.pc = "done"
         /\ r.strategy \in {CACHE_STRATEGIES.CACHE_FIRST, CACHE_STRATEGIES.NETWORK_FIRST}
         /\ r.net = "fail"
         /\ NoCacheEntry(r)) =>
            /\ r.caught
            /\ r.resp = IF OfflineShell # NoResp THEN OfflineShell ELSE Generated

\* an API request failed with nothing in the api region and was answered with
\* the precached offline shell
C11_Witness ==
    /\ done.pc = "done"
    /\ done.strategy = CACHE_STRATEGIES.NETWORK_FIRST
    /\ done.net = "fail"
    /\ NoCacheEntry(done)
    /\ done.caught
    /\ done.resp = OfflineShell

EndsInImageExtension(u) ==
    LET p == Pathname(u) IN
    /\ Len(p) >= 2
    /\ p[Len(p) - 1] = "."
    /\ p[Len(p)] \in {"png", "jpg", "jpeg", "svg", "webp", "gif"}

\* the first rule that matches in the order API prefix, static-asset prefix,
\* icons prefix or image extension, manifest path, default
FirstRule(u) ==
    LET p == Pathname(u) IN
    IF StartsWith(p, <<"/", "api", "/">>)
    THEN [strategy |-> "network-first", region |-> "api-cache-v1"]
    ELSE IF StartsWith(p, <<"/", "_next", "/", "static", "/">>)
    THEN [strategy |-> "cache-first", region |-> "static-cache-v1"]
    ELSE IF StartsWith(p, <<"/", "icons", "/">>) \/ EndsInImageExtension(u)
    THEN [strategy |-> "cache-first", region |-> "images-cache-v1"]
    ELSE IF u = "/manifest.webmanifest"
    THEN [strategy |-> "stale-while-revalidate", region |-> "todo-pwa-v1"]
    ELSE [strategy |-> "network-first-with-offline-fallback",
          region |-> "pages-cache-v1"]

\* the intercepted requests, in progress or just completed
Handled == {reqs[id] : id \in DOMAIN reqs} \cup (IF done.id # 0 THEN {done} ELSE {})

\* C25: every intercepted request runs the strategy of the first rule that
\* matches it in the order API prefix, static-asset prefix, icons prefix or
\* image extension, manifest path, default, and its response is stored in the
\* region of that rule only (the precache aside, which install fills).
C25_FirstMatchingRule ==
    /\ \A r \in Handled :
          r.strategy = FirstRule(r.url).strategy /\ r.region = FirstRule(r.url).region
    /\ \A n \in DOMAIN caches \ {CACHE_NAME} : \A u \in DOMAIN caches[n] :
          n = FirstRule(u).region

\* C26: a request whose path ends in an image extension and starts with
\* neither the API prefix nor the static-asset prefix runs cache-first on the
\* images region, and the pages region never holds a response for it.
C26_ImagesCacheFirst ==
    \A u \in Urls :
        (/\ EndsInImageExtension(u)
         /\ ~StartsWith(Pathname(u), <<"/", "api", "/">>)
         /\ ~StartsWith(Pathname(u), <<"/", "_next", "/", "static", "/">>)) =>
            /\ \A r \in Handled : r.url = u =>
                  /\ r.strategy = CACHE_STRATEGIES.CACHE_FIRST
                  /\ r.region = RUNTIME_CACHE.images
            /\ Match(caches, RUNTIME_CACHE.pages, u) = NoResp

\* C27: when a deletion of the activate handler has failed and all of them
\* have settled, the worker is activated and has claimed the clients.
C27_FailedDeletionStillClaims ==
    (delFailed /\ pendingDel = {}) => (swState = "activated" /\ claimed)

\* the activate handler run on the regions c with every caches.delete
\* fulfilled: the regions it leaves
ActivateRun(c) == [n \in {m \in DOMAIN c : ~IsOldCache(m)} |-> c[n]]

\* C28 as stated: whenever the activation is over, running the activate
\* handler again leaves the regions and their entries as they are.
C28_SecondActivationNoOp ==
    (swState = "activated" /\ pendingDel = {}) => ActivateRun(caches) = caches

\* C28, amended: whenever the activation is over and none of its deletions
\* has failed, running the activate handler again leaves the regions and
\* their entries as they are.
C28_SecondActivationNoOpAfterCleanRun ==
    (swState = "activated" /\ pendingDel = {} /\ ~delFailed) =>
        ActivateRun(caches) = caches

\* the activation has deleted a region, none of the deletions failed, and a
\* response has been stored since
C28_Witness ==
    /\ swState = "activated"
    /\ pendingDel = {}
    /\ ~delFailed
    /\ oldCaches # {}
    /\ \E n \in DOMAIN caches \ {CACHE_NAME} : DOMAIN caches[n] # {}

\* C29: right after an install that succeeded while an older generation is
\* active, no skip-waiting message having arrived, the worker has not called
\* skipWaiting: it waits.
C29_WaitsUntilMessage ==
    [][(swState = "parsed" /\ swState' = "installed" /\ precache' = "ok" /\ olderActive)
          => ~skipWaitingFlag']_vars

\* C32: after a successful install, a request for a file of the precache set
\* whose fetch fails is answered with a copy of that file; when the file was
\* never fetched with success through the fetch handler, the copy is the one
\* cache.addAll stored for it.
C32_PrecachedShellServedOffline ==
    \A r \in Requests :
        (/\ precache = "ok"
         /\ r.pc = "done"
         /\ r.net = "fail"
         /\ r.url \in STATIC_CACHE_FILES) =>
            /\ r.resp.url = r.url
            /\ lastOk[r.url] = 0 => r.resp = Precached(r.url)

\* the urls served stale-while-revalidate
Revalidated == {u \in Urls : Route(u).strategy = CACHE_STRATEGIES.STALE_WHILE_REVALIDATE}

\* the record of the request that arrives in this step
Arrived == IF done'.id = nextReq THEN done' ELSE reqs'[nextReq]

\* C34: a revalidation fetch that ends with a 2xx response overwrites the
\* cache entry of its url, and nothing else changes the entry of an activated
\* worker; a request that arrives while the entry exists is answered at once
\* with the entry as it is at that moment: the new value when it arrives after
\* the overwrite, the value from before the revalidation when it arrives
\* before it, whatever revalidations are still running.
C34_RevalidationOverwrites ==
    [][\A u \in Revalidated :
          LET before == Match(caches, Route(u).region, u)
              after  == Match(caches', Route(u).region, u)
          IN /\ lastOk'[u] # lastOk[u] => after = NetResponse(lastOk'[u], u, "ok")
             /\ (swState = "activated" /\ lastOk'[u] = lastOk[u]) => after = before
             /\ (nextReq' # nextReq /\ Arrived.url = u /\ before # NoResp) =>
                    /\ Arrived.resp = before
                    /\ Arrived.pc = "revalidating"]_vars

\* a request that arrived before a revalidation of another request completed
\* holds the value from before it, and the entry holds the new value, which a
\* later request will get
C34_Witness ==
    /\ done.pc = "done"
    /\ done.url \in Revalidated
    /\ done.net = "ok"
    /\ Match(caches, done.region, done.url) = NetResponse(done.id, done.url, "ok")
    /\ \E i \in DOMAIN reqs :
          /\ reqs[i].url = done.url
          /\ reqs[i].pc = "revalidating"
          /\ i > done.id
          /\ reqs[i].resp = Precached(done.url)

(***************************************************************************)
(* PWAManager: src/unnamed/part_003                                        *)
(***************************************************************************)
\* the functions handed to subscribe
Listeners == {"L1", "L2", "L3"}

\* what a listener does with the manager while it is being called: nothing,
\* call the unsubscribe function of a listener (its own or another's), or
\* subscribe a listener
Reactions ==
    {[do |-> "nothing", who |-> "L1"]}
    \cup {[do |-> d, who |-> l] : d \in {"unsubscribe", "subscribe"}, l \in Listeners}

\* Array.prototype.indexOf: 0 stands for -1
RECURSIVE IndexFrom(_, _, _)
IndexFrom(ls, l, k) ==
    IF k > Len(ls) THEN 0
    ELSE IF ls[k] = l THEN k
    ELSE IndexFrom(ls, l, k + 1)

IndexOf(ls, l) == IndexFrom(ls, l, 1)

\* the function subscribe returns:
\*   index = listeners.indexOf(listener); if (index > -1) listeners.splice(index, 1)
Unsubscribed(ls, l) ==
    LET index == IndexOf(ls, l) IN
    IF index > 0
    THEN SubSeq(ls, 1, index - 1) \o SubSeq(ls, index + 1, Len(ls))
    ELSE ls

\* subscribe: listeners.push(listener)
Subscribed(ls, l) == Append(ls, l)

React(ls, r) ==
    CASE r.do = "unsubscribe" -> Unsubscribed(ls, r.who)
      [] r.do = "subscribe"   -> Subscribed(ls, r.who)
      [] OTHER                -> ls

\* reaction[l] is what listener l does when it is called; a listener that was
\* not subscribed when the call began does nothing
ReactionOf(reaction, l) ==
    IF l \in DOMAIN reaction THEN reaction[l] ELSE [do |-> "nothing", who |-> "L1"]

\* this.listeners.forEach(listener => listener(this.state)): forEach reads the
\* length once (len) and then visits the indices below it that the array
\* still has, in order, whatever the callbacks have done to the array
RECURSIVE ForEach(_, _, _, _, _)
ForEach(ls, k, len, reaction, called) ==
    IF k > len THEN [listeners |-> ls, called |-> called]
    ELSE IF k > Len(ls) THEN ForEach(ls, k + 1, len, reaction, called)
    ELSE ForEach(React(ls, ReactionOf(reaction, ls[k])), k + 1, len, reaction,
                 Append(called, ls[k]))

\* notifyListeners
notifyListeners(ls, reaction) == ForEach(ls, 1, Len(ls), reaction, <<>>)

\* no function is subscribed twice: every caller subscribes a function of its
\* own (usePWA: the setState of the component), once
NoDuplicates(ls) == \A i, j \in 1..Len(ls) : i # j => ls[i] # ls[j]

NotNotified == [active |-> FALSE, snapshot |-> <<>>, called |-> <<>>]

\* the manager's variables after a notifyListeners call on the current
\* listeners: the listeners as the callbacks left them, and the record of the
\* call (the listeners when it began, the listeners called, in order)
Notifies ==
    \E reaction \in [Range(listeners) -> Reactions] :
       LET n == notifyListeners(listeners, reaction) IN
       /\ Len(n.listeners) <= MaxListeners
       /\ NoDuplicates(n.listeners)
       /\ listeners' = n.listeners
       /\ notified' = [active |-> TRUE, snapshot |-> listeners, called |-> n.called]

\* registerServiceWorker, called from init(): register() resolves or rejects;
\* a registration with a waiting worker makes the update available
registerServiceWorker ==
    /\ initPc = "registering"
    /\ \/ /\ registration' = TRUE
          /\ \E w \in BOOLEAN :
                /\ waiting' = w
                /\ IF w
                   THEN /\ state' = [state EXCEPT !.isUpdateAvailable = TRUE]
                        /\ Notifies
                   ELSE UNCHANGED <<state, listeners, notified>>
       \/ /\ registration' = FALSE    \* not supported, or register() rejects
          /\ UNCHANGED <<state, listeners, waiting, notified>>
    /\ initPc' = "registered"
    /\ UNCHANGED installPromptEvent
    /\ applied' = "none"
    /\ ManagerOnly

\* init(), after the awaited registerServiceWorker: this.notifyListeners()
init ==
    /\ initPc = "registered"
    /\ initPc' = "ready"
    /\ Notifies
    /\ UNCHANGED <<state, installPromptEvent, registration, waiting>>
    /\ applied' = "none"
    /\ ManagerOnly

\* handleOnlineStatusChange
handleOnlineStatusChange ==
    /\ state' = [state EXCEPT !.isOnline = ~state.isOnline]
    /\ Notifies
    /\ UNCHANGED <<installPromptEvent, registration, waiting, initPc>>
    /\ applied' = "none"
    /\ ManagerOnly

\* handleBeforeInstallPrompt
handleBeforeInstallPrompt ==
    /\ installPromptEvent' = TRUE
    /\ state' = [state EXCEPT !.isInstallable = TRUE]
    /\ Notifies
    /\ UNCHANGED <<registration, waiting, initPc>>
    /\ applied' = "none"
    /\ ManagerOnly

\* handleAppInstalled
handleAppInstalled ==
    /\ installPromptEvent' = FALSE
    /\ state' = [state EXCEPT !.isInstallable = FALSE, !.isInstalled = TRUE]
    /\ Notifies
    /\ UNCHANGED <<registration, waiting, initPc>>
    /\ applied' = "none"
    /\ ManagerOnly

\* the statechange listener of registerServiceWorker: a new worker has reached
\* 'installed' while a worker controls the page
handleStateChange ==
    /\ registration
    /\ waiting' = TRUE
    /\ state' = [state EXCEPT !.isUpdateAvailable = TRUE]
    /\ Notifies
    /\ UNCHANGED <<installPromptEvent, registration, initPc>>
    /\ applied' = "none"
    /\ ManagerOnly

\* subscribe
subscribe ==
    /\ Len(listeners) < MaxListeners
    /\ \E l \in Listeners \ Range(listeners) : listeners' = Subscribed(listeners, l)
    /\ notified' = NotNotified
    /\ UNCHANGED <<state, installPromptEvent, registration, waiting, initPc>>
    /\ applied' = "none"
    /\ ManagerOnly

\* a call, outside any notification, of the function subscribe returned
unsubscribe ==
    /\ \E l \in Range(listeners) : listeners' = Unsubscribed(listeners, l)
    /\ notified' = NotNotified
    /\ UNCHANGED <<state, installPromptEvent, registration, waiting, initPc>>
    /\ applied' = "none"
    /\ ManagerOnly

\* promptInstall with an install prompt event held: the user accepts or
\* dismisses.  (Without an event, and when prompt() rejects, it returns false
\* and changes nothing.)
promptInstall ==
    /\ installPromptEvent
    /\ installPromptEvent' = FALSE
    /\ \E accepted \in BOOLEAN :
          state' = [state EXCEPT !.isInstallable = FALSE,
                                 !.isInstalled = (accepted \/ state.isInstalled)]
    /\ Notifies
    /\ UNCHANGED <<registration, waiting, initPc>>
    /\ applied' = "none"
    /\ ManagerOnly

\* unregisterServiceWorker, when registration.unregister() resolves
unregisterServiceWorker ==
    /\ registration
    /\ registration' = FALSE
    /\ state' = [state EXCEPT !.isUpdateAvailable = FALSE]
    /\ Notifies
    /\ UNCHANGED <<installPromptEvent, waiting, initPc>>
    /\ applied' = "none"
    /\ ManagerOnly

\* the worker that was waiting activates and becomes registration.active:
\* its install handler has called skipWaiting (sw.js 48-49), or the pages of
\* the older generation are gone.  No event of the manager listens to it.
waitingActivates ==
    /\ registration
    /\ waiting
    /\ waiting' = FALSE
    /\ notified' = NotNotified
    /\ applied' = "none"
    /\ UNCHANGED <<state, listeners, installPromptEvent, registration, initPc>>
    /\ ManagerOnly

\* updateServiceWorker, lines 179-181:
\*   if (!this.registration || !this.registration.waiting) return
UpdateGuard(reg, wait) == ~reg \/ ~wait

\* updateServiceWorker: the early return, or SKIP_WAITING posted to the waiting
\* worker and window.location.reload().  The reload ends this page; the page
\* that is loaded constructs a new manager, and the worker that got the
\* message is no longer waiting.
updateServiceWorker ==
    /\ IF UpdateGuard(registration, waiting)
       THEN /\ applied' = "returned"
            /\ UNCHANGED <<state, listeners, installPromptEvent, registration,
                           waiting, initPc>>
       ELSE /\ applied' = "reloaded"
            /\ state' = [state EXCEPT !.isInstallable = FALSE,
                                      !.isUpdateAvailable = FALSE]
            /\ listeners' = <<>>
            /\ installPromptEvent' = FALSE
            /\ registration' = FALSE
            /\ waiting' = FALSE
            /\ initPc' = "registering"
    /\ notified' = NotNotified
    /\ ManagerOnly

\* the constructor has run init() up to the awaited registerServiceWorker():
\* isInstalled and isOnline are read from the browser
InitPWA ==
    /\ \E installed \in BOOLEAN, online \in BOOLEAN :
          state = [isInstallable |-> FALSE, isInstalled |-> installed,
                   isUpdateAvailable |-> FALSE, isOnline |-> online]
    /\ listeners = <<>>
    /\ installPromptEvent = FALSE
    /\ registration = FALSE
    /\ waiting = FALSE
    /\ initPc = "registering"
    /\ notified = NotNotified
    /\ applied = "none"

NextPWA ==
    \/ registerServiceWorker
    \/ init
    \/ handleOnlineStatusChange
    \/ handleBeforeInstallPrompt
    \/ handleAppInstalled
    \/ handleStateChange
    \/ subscribe
    \/ unsubscribe
    \/ promptInstall
    \/ unregisterServiceWorker
    \/ waitingActivates
    \/ updateServiceWorker

(***************************************************************************)
(* Claims about the manager                                                *)
(***************************************************************************)
\* the number of times l occurs in the sequence ls
Count(ls, l) == Cardinality({k \in 1..Len(ls) : ls[k] = l})

\* C7: a notification is delivered exactly once to every listener that was
\* subscribed when it began, whatever the listeners do to the subscriptions
\* while it is delivered.
C7_EverySubscriberNotifiedOnce ==
    notified.active =>
        \A l \in Range(notified.snapshot) : Count(notified.called, l) = 1

\* C30: an updateServiceWorker call made while isUpdateAvailable is true does
\* not return without doing anything: it posts SKIP_WAITING and reloads the
\* page.  (A call that returned early has left the state as it was, so the
\* flag it shows is the flag the call saw.)
C30_ApplyUpdateNeverSilent ==
    applied = "returned" => ~state.isUpdateAvailable

\* C33: in every reachable state of the manager, isUpdateAvailable is true
\* exactly when the registration has a worker that is installed and waiting
\* to activate; it is false once that worker has become the active one, or
\* when no worker is waiting.
C33_UpdateAvailableIffWaiting ==
    state.isUpdateAvailable <=> (registration /\ waiting)

(***************************************************************************)
(* useTodos: src/unnamed/part_006, as InboxPage and TodayPage use it.  A    *)
(* step is what runs between two awaits: a render with its effects, the    *)
(* part of loadTodos after listTodos or after getStats settles, the part   *)
(* of a mutation callback after a request of the repository settles.       *)
(***************************************************************************)
\* the filter option of the page: InboxPage passes {completed: false, search:
\* undefined} (page.tsx 22-25), TodayPage calls useTodos() without options
todoFilter(v) ==
    IF v = "inbox"
    THEN [NoFilter EXCEPT !.has = {"completed"}, !.completed = FALSE]
    ELSE NoFilter

\* the dependency [filter] of useCallback from one render to the next, as
\* Object.is sees it: the object literal of InboxPage is another object in
\* every render, the undefined of TodayPage is the same value
FilterChanged(v) == v = "inbox"

\* useState of the hook, lines 52-60: todos and error (stats and loading are
\* not kept, only that setting them schedules a render); rerender: a state
\* update has scheduled a render that has not run yet
NoHook == [mounted |-> FALSE, rerender |-> FALSE, todos |-> <<>>, error |-> FALSE]

\* a mutation callback: its page and its argument; reread: listTodos of the
\* page has resolved since the repository call of the callback did
NoTag == [page |-> "", op |-> "none", id |-> "", completed |-> FALSE, reread |-> FALSE]

Tag(v, op, id, completed) ==
    [page |-> v, op |-> op, id |-> id, completed |-> completed, reread |-> FALSE]

NoPair == [id |-> "", was |-> FALSE, n |-> 0]

\* todosData, line 66: the array listTodos(filter) resolves with, each todo
\* with what the list shows of it
TodosData(s, filter) ==
    LET ids == ListTodos(s, filter)
    IN [k \in 1..Len(ids) |-> [id |-> ids[k], completed |-> s[ids[k]].completed]]

\* the ids of the todos the page displays
Displayed(v) == {hook[v].todos[k].id : k \in DOMAIN hook[v].todos}

\* loadTodos, line 65: setError(null), a state update when error was set
Begun(h) == [h EXCEPT !.error = FALSE, !.rerender = h.rerender \/ h.error]

\* no loadTodos call in progress: list counts the calls that await
\* listTodos, stats those that await getStats
NoLoads == [list |-> 0, stats |-> 0]

\* loadTodos, line 66: listTodos(filter) is called and awaited
Started(ls) == [ls EXCEPT !.list = @ + 1]

\* a render of the page and the effects that follow it: the first render, or
\* one scheduled by a state update.  loadTodos is made anew when filter is
\* not the value of the render before (useCallback, line 79), and the effect
\* runs again when loadTodos is another function (useEffect, lines 82-84)
render(v) ==
    /\ ~hook[v].mounted \/ hook[v].rerender
    /\ LET h == [hook[v] EXCEPT !.mounted = TRUE, !.rerender = FALSE]
       IN IF ~hook[v].mounted \/ FilterChanged(v)
          THEN /\ loads[v].list + loads[v].stats < MaxLoads
               /\ hook' = [hook EXCEPT ![v] = Begun(h)]
               /\ loads' = [loads EXCEPT ![v] = Started(@)]
               /\ behind' = [behind EXCEPT ![v] = FALSE]
          ELSE /\ hook' = [hook EXCEPT ![v] = h]
               /\ UNCHANGED <<loads, behind>>
    /\ last' = NoResult
    /\ UNCHANGED <<store, now, call, ops, streak, calls, acted, pair>>
    /\ ViewOnly

\* loadTodos, lines 66-67 and 71-78: listTodos(filter) of one of the calls
\* settles.  Resolved: setTodos(todosData) with a new array, and getStats is
\* called.  Rejected: setError(message) and, in finally, setLoading(false)
loadTodosList(v) ==
    /\ loads[v].list > 0
    /\ \/ /\ hook' = [hook EXCEPT ![v].todos = TodosData(store, todoFilter(v)),
                                  ![v].rerender = TRUE]
          /\ loads' = [loads EXCEPT ![v].list = @ - 1, ![v].stats = @ + 1]
          /\ acted' = IF acted.page = v THEN [acted EXCEPT !.reread = TRUE] ELSE acted
       \/ /\ hook' = [hook EXCEPT ![v].error = TRUE, ![v].rerender = TRUE]
          /\ loads' = [loads EXCEPT ![v].list = @ - 1]
          /\ acted' = acted
    /\ last' = NoResult
    /\ UNCHANGED <<store, now, call, ops, streak, calls, behind, pair>>
    /\ ViewOnly

\* loadTodos, lines 69-78: getStats() of one of the calls settles.  Resolved:
\* setStats(statsData) with a new object.  Rejected: setError(message).  Then
\* setLoading(false), and the callback that awaited loadTodos returns
loadTodosStats(v) ==
    /\ loads[v].stats > 0
    /\ \/ hook' = [hook EXCEPT ![v].rerender = TRUE]
       \/ hook' = [hook EXCEPT ![v].error = TRUE, ![v].rerender = TRUE]
    /\ loads' = [loads EXCEPT ![v].stats = @ - 1]
    /\ last' = NoResult
    /\ UNCHANGED <<store, now, call, ops, streak, calls, behind, acted, pair>>
    /\ ViewOnly

\* a mutation callback that returns true without calling loadTodos
AfterCallNoReload(v, tag) ==
    IF last'.op = "none"
    THEN UNCHANGED <<hook, loads, behind, acted>>
    ELSE IF last'.ok
    THEN /\ behind' = [w \in Pages |-> w # v]
         /\ acted' = tag
         /\ UNCHANGED <<hook, loads>>
    ELSE /\ hook' = [hook EXCEPT ![v].error = TRUE, ![v].rerender = TRUE]
         /\ UNCHANGED <<loads, behind, acted>>

\* a mutation callback of the hook (lines 87-185) after a request of its
\* repository call has settled, last' being the outcome of the call when it
\* is over:
\*   await todoRepository.<call>(...); await loadTodos(); return true
\*   catch: setError(message); return false (null for createTodo)
AfterCall(v, tag) ==
    IF last'.op = "none"
    THEN UNCHANGED <<hook, loads, behind, acted>>
    ELSE IF last'.ok
    THEN /\ hook' = [hook EXCEPT ![v] = Begun(@)]
         /\ loads' = [loads EXCEPT ![v] = Started(@)]
         /\ behind' = [w \in Pages |-> w # v]
         /\ acted' = tag
    ELSE /\ hook' = [hook EXCEPT ![v].error = TRUE, ![v].rerender = TRUE]
         /\ UNCHANGED <<loads, behind, acted>>

\* useTodos.createTodo, lines 87-99, with TodoRepository.createTodo
useCreateTodo(v) ==
    /\ hook[v].mounted
    /\ calls < MaxActs
    /\ calls' = calls + 1
    /\ call.op = "none"
    /\ loads[v].list + loads[v].stats < MaxLoads
    /\ \E id \in Ids \ DOMAIN store :
          LET dto == [NoCreateDto EXCEPT !.title = <<"x">>]
          IN /\ \/ /\ store' = TablePut(store, id, NewTodo(dto, now), now)
                   /\ last' = [Result("createTodo", TRUE, <<id>>, <<>>, FALSE, EmptyStore)
                                  EXCEPT !.dto = dto]
                \/ /\ store' = store                 \* db.todos.add rejects
                   /\ last' = [Result("createTodo", FALSE, <<id>>, <<>>, FALSE, EmptyStore)
                                  EXCEPT !.dto = dto]
             /\ AfterCall(v, Tag(v, "createTodo", id, FALSE))
    /\ streak' = NoStreak
    /\ UNCHANGED <<now, call, ops, pair>>
    /\ ViewOnly

\* useTodos.deleteTodo, lines 121-137, with TodoRepository.deleteTodo, on a
\* todo the page displays
useDeleteTodo(v) ==
    /\ calls < MaxActs
    /\ calls' = calls + 1
    /\ call.op = "none"
    /\ loads[v].list + loads[v].stats < MaxLoads
    /\ \E id \in Displayed(v) :
          /\ \/ /\ store' = TableDelete(store, id)
                /\ last' = IF DeleteResult(store, id) = "0"
                           THEN Failed("deleteTodo", id, "TodoNotFoundError", TRUE)
                           ELSE Result("deleteTodo", TRUE, <<id>>, <<>>, FALSE, EmptyStore)
             \/ /\ store' = store                    \* db.todos.delete rejects
                /\ last' = Failed("deleteTodo", id, "DexieError", FALSE)
          /\ pair' = IF pair.id = id THEN NoPair ELSE pair
          /\ AfterCall(v, Tag(v, "deleteTodo", id, FALSE))
    /\ streak' = NoStreak
    /\ UNCHANGED <<now, call, ops>>
    /\ ViewOnly

\* the two toggleTodo calls that overlap once page v has read todo id for
\* its call: the call of another page that has read the same value of
\* completed and has not written yet, and the call of v
Paired(v, id) ==
    IF ops'[v].op = "none"
    THEN pair
    ELSE IF \E w \in Pages \ {v} :
               /\ ops[w].op = "toggleTodo"
               /\ ops[w].id = id
               /\ ops[w].dto.completed = ~store[id].completed
    THEN [id |-> id, was |-> store[id].completed, n |-> 0]
    ELSE IF pair.id = id THEN NoPair ELSE pair

\* useTodos.toggleTodo, lines 140-155, on a todo the page displays, up to the
\* first request of TodoRepository.toggleTodo: getTodo (repo.ts 246)
useToggleTodo(v) ==
    /\ calls < MaxActs
    /\ calls' = calls + 1
    /\ call.op = "none"
    /\ ops[v].op = "none"
    /\ \E id \in Displayed(v) :
          LET completed == IF Found(store, id) THEN ~store[id].completed ELSE FALSE
          IN /\ GetStep(v, "toggleTodo", id,
                        [NoDto EXCEPT !.given = {"completed"}, !.completed = completed],
                        "get")
             /\ pair' = Paired(v, id)
             /\ AfterCall(v, Tag(v, "toggleTodo", id, completed))
    /\ streak' = NoStreak
    /\ UNCHANGED <<store, now, call>>
    /\ ViewOnly

\* the getTodo of the updateTodo that toggleTodo calls (repo.ts 152)
useToggleTodoUpdate(v) ==
    /\ call.op = "none"
    /\ ops[v].op = "toggleTodo"
    /\ ops[v].pc = "get"
    /\ GetStep(v, ops[v].op, ops[v].id, ops[v].dto, "write")
    /\ pair' = IF ops'[v].op = "none" /\ pair.id = ops[v].id THEN NoPair ELSE pair
    /\ AfterCall(v, Tag(v, "toggleTodo", ops[v].id, ops[v].dto.completed))
    /\ streak' = NoStreak
    /\ UNCHANGED <<store, now, call, calls>>
    /\ ViewOnly

\* the db.todos.update of that updateTodo (repo.ts 177-180) settles, and the
\* callback of the hook goes on
useToggleTodoWrite(v) ==
    /\ call.op = "none"
    /\ ops[v].op = "toggleTodo"
    /\ ops[v].pc = "write"
    /\ loads[v].list + loads[v].stats < MaxLoads
    /\ LET o  == ops[v]
           ch == Changes(o.dto, o.at)
       IN /\ \/ /\ store' = TableUpdate(store, o.id, ch)
                /\ last' = IF ThrowsNotFound(store, o.id, ch)
                           THEN Failed(o.op, o.id, "TodoNotFoundError", TRUE)
                           ELSE [Result(o.op, TRUE, <<o.id>>, <<>>, FALSE, EmptyStore)
                                    EXCEPT !.done = 1]
             \/ /\ store' = store                    \* db.todos.update rejects
                /\ last' = Failed(o.op, o.id, "DexieError", TRUE)
          /\ pair' = IF pair.id # o.id THEN pair
                     ELSE IF last'.ok /\ pair.n < 2 THEN [pair EXCEPT !.n = @ + 1]
                     ELSE NoPair
          /\ AfterCall(v, Tag(v, "toggleTodo", o.id, o.dto.completed))
    /\ ops' = [ops EXCEPT ![v] = NoOp]
    /\ streak' = NoStreak
    /\ UNCHANGED <<now, call, calls>>
    /\ ViewOnly

\* the todos the table holds when the pages are opened
PageTodo(completed) ==
    [NewTodo([NoCreateDto EXCEPT !.title = <<"x">>], 0) EXCEPT !.completed = completed]

PageStores == { [id \in Ids |-> PageTodo(id = "b")] }

\* no page is open
HooksAtRest ==
    /\ hook = [v \in Pages |-> NoHook]
    /\ loads = [v \in Pages |-> NoLoads]
    /\ behind = [v \in Pages |-> FALSE]
    /\ acted = NoTag
    /\ pair = NoPair

\* the pages are about to be rendered for the first time
InitView ==
    /\ store \in PageStores
    /\ now = 0
    /\ call = NoCall
    /\ ops = [v \in Views \cup Pages |-> NoOp]
    /\ last = NoResult
    /\ streak = NoStreak
    /\ calls = 0
    /\ HooksAtRest

NextView ==
    \/ Tick
    \/ \E v \in Pages :
          \/ render(v)
          \/ loadTodosList(v)
          \/ loadTodosStats(v)
          \/ useCreateTodo(v)
          \/ useDeleteTodo(v)
          \/ useToggleTodo(v)
          \/ useToggleTodoUpdate(v)
          \/ useToggleTodoWrite(v)

\* the pages after they are opened, when the user does nothing and nothing
\* writes the table
NextMounted ==
    \/ Tick
    \/ \E v \in Pages :
          \/ render(v)
          \/ loadTodosList(v)
          \/ loadTodosStats(v)

(***************************************************************************)
(* Claims about the views                                                  *)
(***************************************************************************)
\* C31: when a todo has been toggled to completed from the inbox page, the
\* page has read the table again since, and no other page has written the
\* table, the list the page displays still holds the todo, with completed
\* true.
C31_ToggledTodoStaysDisplayed ==
    (/\ acted.page = "inbox"
     /\ acted.op = "toggleTodo"
     /\ acted.completed
     /\ acted.reread
     /\ ~behind["inbox"]) =>
        \E k \in DOMAIN hook["inbox"].todos :
           hook["inbox"].todos[k] = [id |-> acted.id, completed |-> TRUE]

C36_OverlappingTogglesFlipTwice ==
    pair.n = 2 => store[pair.id].completed = pair.was

\* the page passes a filter option to useTodos
PassesFilter(v) == todoFilter(v) # NoFilter

\* no loadTodos call of the page is in progress and no render is scheduled
AtRest(v) == hook[v].mounted /\ loads[v] = NoLoads /\ ~hook[v].rerender

\* C37: a page that passes a filter to useTodos, once opened and left alone,
\* calls listTodos finitely many times and then stays without a call in
\* progress and without a render to come.
C37_ListQueriesStop ==
    \A v \in Pages : PassesFilter(v) => <>[]AtRest(v)

(***************************************************************************)
(* Specifications                                                          *)
(***************************************************************************)
\* one initial state of each part, for the specifications of the other parts
WorkerAtRest ==
    /\ swState = "parsed"
    /\ olderActive = FALSE
    /\ skipWaitingFlag = FALSE
    /\ claimed = FALSE
    /\ precache = "none"
    /\ caches = [n \in {} |-> EmptyCache]
    /\ oldCaches = {}
    /\ pendingDel = {}
    /\ delFailed = FALSE
    /\ reqs = NoReq
    /\ nextReq = 1
    /\ done = NoDone
    /\ lastOk = [u \in Urls |-> 0]

ManagerAtRest ==
    /\ state = [isInstallable |-> FALSE, isInstalled |-> FALSE,
                isUpdateAvailable |-> FALSE, isOnline |-> TRUE]
    /\ listeners = <<>>
    /\ installPromptEvent = FALSE
    /\ registration = FALSE
    /\ waiting = FALSE
    /\ initPc = "registering"
    /\ notified = NotNotified
    /\ applied = "none"

Init == InitRepo /\ InitSW /\ InitPWA /\ HooksAtRest

Next == NextRepo \/ NextCrud \/ NextList \/ NextSW \/ NextPWA \/ NextView

Spec == Init /\ [][Next]_vars

\* the repository alone
InitRepoAlone == InitRepo /\ WorkerAtRest /\ ManagerAtRest /\ HooksAtRest

SpecRepo == InitRepoAlone /\ [][NextRepo]_vars

SpecCrud == InitRepoAlone /\ [][NextCrud]_vars

\* the reads of the repository
InitListAlone == InitList /\ WorkerAtRest /\ ManagerAtRest /\ HooksAtRest

SpecList == InitListAlone /\ [][NextList]_vars

\* the service worker alone
InitSWAlone == InitSW /\ InitRepo /\ ManagerAtRest /\ HooksAtRest

SpecSW == InitSWAlone /\ [][NextSW]_vars

\* the manager alone
InitPWAAlone == InitPWA /\ InitRepo /\ WorkerAtRest /\ HooksAtRest

SpecPWA == InitPWAAlone /\ [][NextPWA]_vars

\* the pages, on a repository that no other caller uses
InitViewAlone == InitView /\ WorkerAtRest /\ ManagerAtRest

SpecView == InitViewAlone /\ [][NextView]_vars

\* the pages left alone: the browser runs every render that is scheduled,
\* and every request of IndexedDB settles
SpecViewLive ==
    /\ InitViewAlone
    /\ [][NextMounted]_vars
    /\ \A v \in Pages :
          /\ WF_vars(render(v))
          /\ WF_vars(loadTodosList(v))
          /\ WF_vars(loadTodosStats(v))

====
